---- MODULE Spec2Model ----
(***************************************************************************)
(* Model of the "AI receptionist" backend (src/server/index.js) and of the *)
(* browser views that call it (src/src/App.tsx).                           *)
(*                                                                         *)
(* The hosted database is modelled by three tables (businesses,            *)
(* payment_requests, call_logs).  A request handler is one action: it      *)
(* reads the tables, writes them and leaves its answer in resp.            *)
(***************************************************************************)
EXTENDS Integers, Sequences, FiniteSets, TLC

VARIABLES
    businesses,        \* table businesses: a set of rows
    payment_requests,  \* table payment_requests: a set of rows
    call_logs,         \* table call_logs: a sequence of rows, in insertion order
    outbox,            \* confirmation mails handed to the transporter (request ids)
    req,               \* the last request handled: [op, arg]
    resp,              \* the answer to it
    chat,              \* the POST /api/chat request in progress and its answer so far
    ui,                \* the browser: the state of App and of the view it shows
    admin,             \* the handlers of the requests to /api/admin in progress
    callbacks,         \* the handlers of the status callbacks delivered so far
    vad                \* the volume monitor of the voice view (useAudioVAD)

(***************************************************************************)
(* Values                                                                  *)
(***************************************************************************)
NULL == "null"          \* a missing string / column without a value
NONUM == -1             \* a numeric column without a value (SQL NULL)

Users == {"u1", "u2"}
NoToken == "none"       \* request without Authorization header
BadToken == "bad"       \* a token Supabase does not accept
Tokens == Users \cup {NoToken, BadToken}   \* a user's name stands for its valid token

EmailOf(u) == IF u = "u1" THEN "u1@mail" ELSE NULL

\* bounds of the model
MaxUsed == 10           \* minutes_used is not driven beyond this value
MaxRequests == 1        \* rows of payment_requests
MaxLogs == 1            \* rows of call_logs

(***************************************************************************)
(* JavaScript helpers                                                      *)
(***************************************************************************)
\* x || d on a numeric column: null and 0 are both falsy
OrDefault(x, d) == IF x = NONUM \/ x = 0 THEN d ELSE x

\* s || d on a string: a missing and an empty string are both falsy
StrOrDefault(s, d) == IF s = NULL \/ s = "" THEN d ELSE s

Digits == {"0", "1", "2", "3", "4", "5", "6", "7", "8", "9"}
DigitVal(c) ==
    CASE c = "0" -> 0 [] c = "1" -> 1 [] c = "2" -> 2 [] c = "3" -> 3
      [] c = "4" -> 4 [] c = "5" -> 5 [] c = "6" -> 6 [] c = "7" -> 7
      [] c = "8" -> 8 [] c = "9" -> 9

\* the value of the longest prefix of s made of digits; none is TRUE when s
\* does not begin with a digit
RECURSIVE DigitPrefix(_, _, _)
DigitPrefix(s, acc, none) ==
    IF s = <<>> \/ Head(s) \notin Digits
    THEN [nan |-> none, val |-> acc]
    ELSE DigitPrefix(Tail(s), 10 * acc + DigitVal(Head(s)), FALSE)

\* parseInt(s) of a string given as its sequence of characters: an optional
\* sign, then the leading digits; NaN when there are none.  An absent field
\* (undefined) is the empty sequence: parseInt(undefined) is NaN as well.
parseInt(s) ==
    IF s # <<>> /\ Head(s) = "-"
    THEN LET r == DigitPrefix(Tail(s), 0, TRUE) IN [nan |-> r.nan, val |-> 0 - r.val]
    ELSE DigitPrefix(s, 0, TRUE)

\* parseInt(s) || 0
ParseIntOrZero(s) == LET r == parseInt(s) IN IF r.nan THEN 0 ELSE r.val

\* Math.ceil(d / 60) for an integer d
CeilMinutesFloor(d) == d \div 60
CeilMinutes(d) == IF d % 60 = 0 THEN d \div 60 ELSE (d \div 60) + 1

(***************************************************************************)
(* Answers                                                                 *)
(***************************************************************************)
Json(op, status, what) == [op |-> op, status |-> status, json |-> what, twiml |-> <<>>]
Twiml(op, verbs) == [op |-> op, status |-> 200, json |-> "", twiml |-> verbs]
NoResponse == Json("none", 0, "")

\* a request as req records it
Request(op, r) == [op |-> op, arg |-> r]
NoRequest == Request("none", [token |-> NoToken])

Say(text) == [verb |-> "Say", text |-> text, business_id |-> NULL, call_sid |-> NULL]
Hangup == [verb |-> "Hangup", text |-> "", business_id |-> NULL, call_sid |-> NULL]
Redirect == [verb |-> "Redirect", text |-> "/webhooks/twilio/voice", business_id |-> NULL, call_sid |-> NULL]
Gather(bid, sid) == [verb |-> "Gather", text |-> "/webhooks/twilio/gather", business_id |-> bid, call_sid |-> sid]

(***************************************************************************)
(* Authentication                                                          *)
(***************************************************************************)
\* getUser: null without a token, else what supabase.auth.getUser answers
getUser(token) ==
    IF token = NoToken THEN NULL
    ELSE IF token \in Users THEN token ELSE NULL

(***************************************************************************)
(* Table businesses                                                        *)
(***************************************************************************)
BusinessIds == <<"b1", "b2", "b3">>      \* the ids the database hands out, in order

AcmeForm ==
    [name |-> "Acme", services |-> "", tone |-> "professional",
     workingHours |-> "", greeting |-> ""]
BoltForm ==
    [name |-> "Bolt", services |-> "Repairs", tone |-> "friendly",
     workingHours |-> "24/7", greeting |-> "Welcome to Bolt"]
SetupBodies == {AcmeForm, BoltForm}

\* the row that upsert({user_id, business_name, ..., working_hours, greeting})
\* sends; the columns it does not name keep their null
NewBusiness(id, user, body) ==
    [id |-> id, user_id |-> user,
     business_name |-> body.name,
     services |-> body.services, tone |-> body.tone,
     working_hours |-> StrOrDefault(body.workingHours, "9 AM - 5 PM"),
     greeting |-> body.greeting,
     twilio_phone_number |-> NULL,
     minutes_used |-> NONUM, minutes_limit |-> NONUM,
     subscription_plan |-> NULL]

\* .eq(column, value).single(): the one row that matches, NoRow when none or
\* several match (single() then answers with an error and no data)
NoRow == [id |-> NULL]
SingleBy(rows) == IF Cardinality(rows) = 1 THEN CHOOSE r \in rows : TRUE ELSE NoRow

BusinessOfUser(user) == SingleBy({b \in businesses : b.user_id = user})
BusinessOfNumber(to) == SingleBy({b \in businesses : b.twilio_phone_number = to})
BusinessOfId(id) == SingleBy({b \in businesses : b.id = id})

\* businesses has one row per user: user_id is unique, and an insert that
\* would give a user a second row is refused ("duplicate key")
UserIdUnique(rows) == \A a, b \in rows : a.user_id = b.user_id => a = b

(***************************************************************************)
(* POST /api/setup                                                         *)
(***************************************************************************)
\* upsert without onConflict resolves conflicts on the primary key id; the row
\* sent carries no id, so it is inserted under a fresh one
UpsertBusiness(user, body) ==
    businesses \cup {NewBusiness(BusinessIds[Cardinality(businesses) + 1], user, body)}

Setup(token, body, db) ==
    LET user == getUser(token) IN
    /\ UNCHANGED <<payment_requests, call_logs, outbox>>
    /\ IF user = NULL
       THEN /\ resp' = Json("setup", 401, "Unauthorized")
            /\ UNCHANGED businesses
       ELSE IF db = "err"
       THEN /\ resp' = Json("setup", 500, "error")
            /\ UNCHANGED businesses
       ELSE IF ~UserIdUnique(UpsertBusiness(user, body))
       THEN /\ resp' = Json("setup", 500, "duplicate key")
            /\ UNCHANGED businesses
       ELSE /\ businesses' = UpsertBusiness(user, body)
            /\ resp' = Json("setup", 200, "success")

(***************************************************************************)
(* POST /api/twilio/connect                                                *)
(***************************************************************************)
Phones == {"+1555"}                 \* numbers a user may connect
Numbers == Phones \cup {"+1999"}    \* numbers a webhook may name as To

TwilioConnect(token, phoneNumber, twilioApi, db) ==
    LET user == getUser(token)
        row == BusinessOfUser(user)
    IN
    /\ UNCHANGED <<payment_requests, call_logs, outbox>>
    /\ IF user = NULL
       THEN /\ resp' = Json("connect", 401, "Unauthorized")
            /\ UNCHANGED businesses
       ELSE IF twilioApi = "notfound"
       THEN /\ resp' = Json("connect", 400, "Phone number not found")
            /\ UNCHANGED businesses
       ELSE IF twilioApi = "throw" \/ db = "err" \/ row = NoRow
       THEN /\ resp' = Json("connect", 500, "error")
            /\ UNCHANGED businesses
       ELSE /\ businesses' = (businesses \ {row})
                   \cup {[row EXCEPT !.twilio_phone_number = phoneNumber]}
            /\ resp' = Json("connect", 200, "success")

(***************************************************************************)
(* Twilio webhooks                                                         *)
(***************************************************************************)
CallSids == {"CA1"}                  \* calls that are placed
AnySids == CallSids \cup {"CA0"}     \* what a callback may name as its call
FromNumber == "+1777"
Signatures == {"valid", "forged"}

\* the durations Twilio may send as CallDuration, as character sequences
\* (<<>> is an absent field); 241 s and 600 s are billed as 5 and 10 minutes
CallDurations ==
    { <<>>, <<"0">>, <<"-", "5">>, <<"x">>, <<"2", "4", "1">>, <<"6", "0", "0">> }
CallStatuses == {"completed", "busy"}

\* validateTwilioRequest: the signature check is switched off, every request
\* goes on to its handler
validateTwilioRequest(sig) == TRUE

\* twiml.say(text); twiml.hangup(); res.type('text/xml').send(twiml.toString())
SayHangupAsHttpError(op, text) == Json(op, 500, text)
SayHangup(op, text) == Twiml(op, <<Say(text), Hangup>>)

\* the quota rule of the voice webhook
LimitReachedStrict(business) ==
    OrDefault(business.minutes_used, 0) > OrDefault(business.minutes_limit, 10)
LimitReached(business) ==
    OrDefault(business.minutes_used, 0) >= OrDefault(business.minutes_limit, 10)

CallLog(business, sid, to) ==
    [business_id |-> business.id, user_id |-> business.user_id, call_sid |-> sid,
     from_number |-> FromNumber, to_number |-> to, status |-> "ringing",
     duration |-> NONUM, transcript |-> "[]"]

Greeting(business) ==
    StrOrDefault(business.greeting, "Hello, you've reached the business")

\* POST /webhooks/twilio/voice
\* db: "ok", "read_err" (the select answers with an error), "write_err" (the
\* insert answers with an error, which the handler does not look at), "throw"
\* (an exception inside the try block)
VoiceWebhook(sig, To, CallSid, db) ==
    LET business == IF db = "read_err" THEN NoRow ELSE BusinessOfNumber(To) IN
    /\ UNCHANGED <<businesses, payment_requests, outbox>>
    /\ IF ~validateTwilioRequest(sig)
       THEN /\ resp' = Json("voice", 403, "Forbidden")
            /\ UNCHANGED call_logs
       ELSE IF db = "throw"
       THEN /\ resp' = SayHangup("voice", "Sorry, an error occurred.")
            /\ UNCHANGED call_logs
       ELSE IF business = NoRow
       THEN /\ resp' = SayHangup("voice", "Sorry, this number is not configured.")
            /\ UNCHANGED call_logs
       ELSE IF LimitReached(business)
       THEN /\ resp' = SayHangup("voice", "monthly call limit")
            /\ UNCHANGED call_logs
       ELSE /\ call_logs' = IF db = "write_err" THEN call_logs
                            ELSE Append(call_logs, CallLog(business, CallSid, To))
            /\ resp' = Twiml("voice",
                   <<Say(Greeting(business)), Gather(business.id, CallSid),
                     Say("I didn't catch that."), Redirect>>)

\* update(...).eq('call_sid', sid) on call_logs
UpdateLogs(sid, f(_)) ==
    [i \in DOMAIN call_logs |->
        IF call_logs[i].call_sid = sid THEN f(call_logs[i]) ELSE call_logs[i]]

SetTranscript(row) == [row EXCEPT !.transcript = "turn"]

\* POST /webhooks/twilio/gather
\* ai: what chat.sendMessage does, "ok" or "throw"
GatherWebhook(sig, business_id, call_sid, db, ai) ==
    LET business == IF db = "read_err" THEN NoRow ELSE BusinessOfId(business_id) IN
    /\ UNCHANGED <<businesses, payment_requests, outbox>>
    /\ IF ~validateTwilioRequest(sig)
       THEN /\ resp' = Json("gather", 403, "Forbidden")
            /\ UNCHANGED call_logs
       ELSE IF db = "throw"
       THEN /\ resp' = SayHangup("gather", "Sorry, I encountered an error.")
            /\ UNCHANGED call_logs
       ELSE IF business = NoRow
       THEN /\ resp' = SayHangup("gather", "Sorry, configuration error.")
            /\ UNCHANGED call_logs
       ELSE IF ai = "throw"
       THEN /\ resp' = SayHangup("gather", "Sorry, I encountered an error.")
            /\ UNCHANGED call_logs
       ELSE /\ call_logs' = IF db = "write_err" THEN call_logs
                            ELSE UpdateLogs(call_sid, SetTranscript)
            /\ resp' = Twiml("gather",
                   <<Say("ai response"), Gather(business_id, call_sid),
                     Say("Is there anything else I can help with?"), Hangup>>)

\* the minutes a status callback adds: 0 unless the call completed with a
\* duration that parses to a positive number
MinutesToAdd(CallStatus, CallDuration) ==
    LET durationSec == parseInt(CallDuration) IN
    IF CallStatus = "completed" /\ CallDuration # <<>>
          /\ ~durationSec.nan /\ durationSec.val > 0
    THEN CeilMinutes(durationSec.val)
    ELSE 0

\* POST /webhooks/twilio/status
StatusWebhook(sig, CallSid, CallStatus, CallDuration, To) ==
    LET SetStatus(row) == [row EXCEPT !.status = CallStatus,
                                      !.duration = ParseIntOrZero(CallDuration)]
        minutesToAdd == MinutesToAdd(CallStatus, CallDuration)
        business == BusinessOfNumber(To)
        newUsage == OrDefault(business.minutes_used, 0) + minutesToAdd
    IN
    /\ UNCHANGED <<payment_requests, outbox>>
    /\ IF ~validateTwilioRequest(sig)
       THEN /\ resp' = Json("status", 403, "Forbidden")
            /\ UNCHANGED <<businesses, call_logs>>
       ELSE /\ call_logs' = UpdateLogs(CallSid, SetStatus)
            /\ resp' = Json("status", 200, "OK")
            /\ IF minutesToAdd > 0 /\ business # NoRow
               THEN /\ businesses' = (businesses \ {business})
                          \cup {[business EXCEPT !.minutes_used = newUsage]}
               ELSE UNCHANGED businesses

(***************************************************************************)
(* Billing                                                                 *)
(***************************************************************************)
Plans == {"starter", "growth", "pro", "free"}   \* what a client may send as plan
RequestIds == <<"r1", "r2", "r3">>               \* ids of payment_requests rows

\* GET /api/billing/plans: the minutes advertised for a plan (0: not offered)
BillingPlanMinutes(plan) ==
    CASE plan = "starter" -> 100
      [] plan = "growth" -> 500
      [] plan = "pro" -> 2000
      [] OTHER -> 0

PayBodies ==
    { [plan |-> p, amount |-> "29", paymentMethod |-> "payoneer", reference |-> "TX1",
       businessId |-> NULL] : p \in Plans }
    \cup { [plan |-> "starter", amount |-> "29", paymentMethod |-> "payoneer",
            reference |-> "TX3", businessId |-> "b2"],
           [plan |-> "pro", amount |-> "149", paymentMethod |-> "nayapay", reference |-> "",
            businessId |-> "b1"],
           [plan |-> "", amount |-> "29", paymentMethod |-> "payoneer", reference |-> "TX2",
            businessId |-> "b2"] }

\* the row that insert({user_id, email, business_id, plan, ...}) sends
PaymentRequestForBodyBusiness(id, user, business, body) ==
    [id |-> id, user_id |-> user, email |-> EmailOf(user),
     business_id |-> body.businessId, plan |-> body.plan,
     amount |-> body.amount, payment_method |-> body.paymentMethod,
     payment_reference |-> body.reference, status |-> "pending"]
PaymentRequest(id, user, business, body) ==
    [id |-> id, user_id |-> user, email |-> EmailOf(user),
     business_id |-> business.id, plan |-> body.plan,
     amount |-> body.amount, payment_method |-> body.paymentMethod,
     payment_reference |-> body.reference, status |-> "pending"]

\* POST /api/billing/pay
Pay(token, body, db) ==
    LET user == getUser(token)
        business == IF db = "read_err" THEN NoRow ELSE BusinessOfUser(user)
    IN
    /\ UNCHANGED <<businesses, call_logs, outbox>>
    /\ IF user = NULL
       THEN /\ resp' = Json("pay", 401, "Unauthorized")
            /\ UNCHANGED payment_requests
       ELSE IF body.plan = "" \/ body.amount = "" \/ body.paymentMethod = ""
                 \/ body.reference = ""
       THEN /\ resp' = Json("pay", 400, "Missing required fields")
            /\ UNCHANGED payment_requests
       ELSE IF business = NoRow
       THEN /\ resp' = Json("pay", 404, "Business not found")
            /\ UNCHANGED payment_requests
       ELSE IF db = "write_err"
       THEN /\ resp' = Json("pay", 500, "Payment submission failed")
            /\ UNCHANGED payment_requests
       ELSE /\ Cardinality(payment_requests) < MaxRequests
            /\ payment_requests' = payment_requests \cup
                   {PaymentRequest(RequestIds[Cardinality(payment_requests) + 1],
                                   user, business, body)}
            /\ resp' = Json("pay", 200, "Payment request submitted")

ADMIN_SECRET == "admin123"
Secrets == {ADMIN_SECRET, "guess"}

\* a gate that lets every request through
requireAdminOpen(secret) == TRUE

requireAdmin(secret) == secret = ADMIN_SECRET

\* the table of limits used before the answer is sent
FirstLimit(plan) ==
    CASE plan = "starter" -> 100
      [] plan = "growth" -> 500
      [] plan = "pro" -> 2000
      [] OTHER -> 10

\* the limits computed again after the answer has been sent
SecondLimit(plan) ==
    IF plan = "pro" THEN 500 ELSE IF plan = "starter" THEN 100 ELSE 10

\* update({subscription_plan, minutes_limit}).eq('id', business_id)
SetPlan(rows, business_id, plan, limit) ==
    { IF b.id = business_id
      THEN [b EXCEPT !.subscription_plan = plan, !.minutes_limit = limit]
      ELSE b : b \in rows }

SetApproved(rows, requestId) ==
    { IF r.id = requestId THEN [r EXCEPT !.status = "approved"] ELSE r : r \in rows }

\* POST /api/admin/approve, to the end of the handler.  resp is the answer the
\* client receives (the first one sent).
\* markOk: the update of the request succeeds; firstOk, secondOk: the two
\* updates of the business succeed; mail: EMAIL_PASSWORD is set and the
\* transporter accepts the mail
Approve(secret, requestId, markOk, firstOk, secondOk, mail) ==
    LET request == SingleBy({r \in payment_requests : r.id = requestId})
        afterFirst == IF firstOk
                      THEN SetPlan(businesses, request.business_id, request.plan,
                                   FirstLimit(request.plan))
                      ELSE businesses
    IN
    /\ UNCHANGED call_logs
    /\ IF ~requireAdmin(secret)
       THEN /\ resp' = Json("approve", 403, "Forbidden")
            /\ UNCHANGED <<businesses, payment_requests, outbox>>
       ELSE IF request = NoRow
       THEN /\ resp' = Json("approve", 404, "Request not found")
            /\ UNCHANGED <<businesses, payment_requests, outbox>>
       ELSE IF request.status = "approved"
       THEN /\ resp' = Json("approve", 400, "Already approved")
            /\ UNCHANGED <<businesses, payment_requests, outbox>>
       ELSE IF ~markOk
       THEN /\ resp' = Json("approve", 500, "Approval failed")
            /\ UNCHANGED <<businesses, payment_requests, outbox>>
       ELSE /\ payment_requests' = SetApproved(payment_requests, requestId)
            /\ outbox' = IF request.email # NULL /\ mail
                         THEN Append(outbox, requestId) ELSE outbox
            /\ resp' = Json("approve", 200, "Approved and updated")
            /\ businesses' = IF secondOk
                             THEN SetPlan(afterFirst, request.business_id, request.plan,
                                          SecondLimit(request.plan))
                             ELSE afterFirst

(***************************************************************************)
(* Text.  A text is the sequence of its characters; a fixed phrase of the  *)
(* program (an error message, a greeting) is a text of one symbol.         *)
(***************************************************************************)
IsSpace(c) == c = " "

RECURSIVE Join(_)
Join(chunks) == IF chunks = <<>> THEN <<>> ELSE Head(chunks) \o Join(Tail(chunks))

RECURSIVE TrimStart(_)
TrimStart(t) == IF t # <<>> /\ IsSpace(Head(t)) THEN TrimStart(Tail(t)) ELSE t
RECURSIVE TrimEnd(_)
TrimEnd(t) ==
    IF t # <<>> /\ IsSpace(t[Len(t)]) THEN TrimEnd(SubSeq(t, 1, Len(t) - 1)) ELSE t
\* String.prototype.trim
Trim(t) == TrimEnd(TrimStart(t))

\* JSON.stringify of a string: the quote and the backslash are escaped
RECURSIVE Escape(_)
Escape(t) ==
    IF t = <<>> THEN <<>>
    ELSE (IF Head(t) \in {"\"", "\\"} THEN <<"\\", Head(t)>> ELSE <<Head(t)>>)
         \o Escape(Tail(t))

\* JSON.stringify({key: t}); the key is one symbol
JsonStringify(key, t) ==
    <<"{", "\"", key, "\"", ":", "\"">> \o Escape(t) \o <<"\"", "}">>

NoParse == [ok |-> FALSE, kind |-> "none", key |-> "", value |-> <<>>, rest |-> <<>>]

\* the inside of a JSON string literal up to its closing quote, unescaped
RECURSIVE Unescape(_, _)
Unescape(t, acc) ==
    IF t = <<>> THEN NoParse
    ELSE IF Head(t) = "\""
    THEN [NoParse EXCEPT !.ok = TRUE, !.value = acc, !.rest = Tail(t)]
    ELSE IF Head(t) = "\\"
    THEN IF Len(t) >= 2 /\ t[2] \in {"\"", "\\"}
         THEN Unescape(Tail(Tail(t)), Append(acc, t[2]))
         ELSE NoParse
    ELSE Unescape(Tail(t), Append(acc, Head(t)))

\* JSON.parse of a body: an object of one string member, or a string literal;
\* anything else is a syntax error (ok = FALSE).  Whitespace around the value
\* is allowed.
JsonParse(body) ==
    LET t == Trim(body) IN
    IF Len(t) >= 6 /\ SubSeq(t, 1, 2) = <<"{", "\"">> /\ SubSeq(t, 4, 6) = <<"\"", ":", "\"">>
    THEN LET s == Unescape(SubSeq(t, 7, Len(t)), <<>>) IN
         IF s.ok /\ s.rest = <<"}">>
         THEN [s EXCEPT !.kind = "object", !.key = t[3], !.rest = <<>>]
         ELSE NoParse
    ELSE IF t # <<>> /\ Head(t) = "\""
    THEN LET s == Unescape(Tail(t), <<>>) IN
         IF s.ok /\ s.rest = <<>> THEN [s EXCEPT !.kind = "string"] ELSE NoParse
    ELSE NoParse

(***************************************************************************)
(* POST /api/chat                                                          *)
(***************************************************************************)
\* A configuration as the handler reads it: the columns of a businesses row
\* (business_name, working_hours) or the fields of the onboarding form (name,
\* workingHours).  given = FALSE is a request without config.
EmptyConfig ==
    [given |-> TRUE, business_name |-> NULL, name |-> NULL, services |-> NULL,
     tone |-> NULL, working_hours |-> NULL, workingHours |-> NULL, greeting |-> NULL]
NoConfig == [EmptyConfig EXCEPT !.given = FALSE]
ConfigOfForm(f) ==
    [EmptyConfig EXCEPT !.name = f.name, !.services = f.services, !.tone = f.tone,
                        !.workingHours = f.workingHours, !.greeting = f.greeting]
ConfigOfRow(row) ==
    [EmptyConfig EXCEPT !.business_name = row.business_name, !.services = row.services,
                        !.tone = row.tone, !.working_hours = row.working_hours,
                        !.greeting = row.greeting]

\* the values interpolated into the system prompt
systemPrompt(config) ==
    [name |-> StrOrDefault(config.business_name, StrOrDefault(config.name, "Business")),
     services |-> StrOrDefault(config.services, "General Inquiry"),
     hours |-> StrOrDefault(config.working_hours,
                            StrOrDefault(config.workingHours, "9 AM - 5 PM")),
     tone |-> StrOrDefault(config.tone, "professional")]

\* a message of the request: given = FALSE when the field is absent
NoMessage == [given |-> FALSE, text |-> <<>>]
Message(t) == [given |-> TRUE, text |-> t]
\* !message
MessageMissingWhenAbsent(m) == ~m.given
MessageMissing(m) == ~m.given \/ m.text = <<>>

\* The history of a request body is any JSON value: an array of entries, or
\* something else (absent, null, a string, an object), whose items the
\* handler never looks at.  An entry is an object with role and content, or
\* null; content <<>> also stands for a content that is absent
\* (msg.content || '').
Entry(role, content) == [role |-> role, content |-> content, object |-> TRUE]
NullEntry == [role |-> "", content |-> <<>>, object |-> FALSE]
ArrayOf(items) == [isArray |-> TRUE, items |-> items]
NotArray(items) == [isArray |-> FALSE, items |-> items]

\* Array.isArray(history) ? history : []
safeHistory(history) == IF history.isArray THEN history.items ELSE <<>>

\* reading msg.role of a null entry throws a TypeError
MapThrows(history) ==
    \E i \in DOMAIN safeHistory(history) : ~safeHistory(history)[i].object

RECURSIVE MapRoles(_)
MapRoles(history) ==
    IF history = <<>> THEN <<>>
    ELSE <<[role |-> IF Head(history).role = "assistant" THEN "model" ELSE "user",
            text |-> Head(history).content]>> \o MapRoles(Tail(history))
\* a history that is passed on as mapped, without the entry put in front
formattedHistoryAsMapped(history) == MapRoles(safeHistory(history))
formattedHistory(history) ==
    LET h == MapRoles(safeHistory(history)) IN
    IF h # <<>> /\ h[1].role = "model"
    THEN <<[role |-> "user", text |-> <<"Start conversation">>]>> \o h
    ELSE h

\* What the model does with a call: the chunks its stream yields, and whether
\* it fails: "send" when sendMessageStream rejects, "stream" when the stream
\* throws after the chunks listed.
Script(chunks, fail) == [chunks |-> chunks, fail |-> fail]
Scripts ==
    { Script(<< <<"H", "i", ".">>, <<" ", "O", "k">> >>, "no"),
      Script(<< <<"\"", "a", "\"">> >>, "no"),
      Script(<< <<"N", "o">>, <<"!", " ">>, <<"Y">> >>, "no"),
      Script(<<>>, "no"),
      Script(<<>>, "send"),
      Script(<<>>, "stream"),
      Script(<< <<"H", "i", ".">> >>, "stream") }

NoChatRequest ==
    [hasBody |-> FALSE, config |-> NoConfig, token |-> NoToken, message |-> NoMessage,
     history |-> NotArray(<<>>), db |-> "ok", ai |-> Script(<<>>, "no")]

\* The handler between two requests.  status 0: no status line sent yet.
IdleChat ==
    [pc |-> "idle", origin |-> "none", r |-> NoChatRequest,
     isDemoMode |-> FALSE, config |-> NoConfig, user |-> NULL,
     authChecks |-> 0, dbReads |-> 0, calls |-> <<>>,
     produced |-> 0, fullResponse |-> <<>>,
     written |-> <<>>, headersSent |-> FALSE, ended |-> FALSE, sends |-> 0,
     status |-> 0, ctype |-> "none", body |-> <<>>]

\* res.status(status).json({key: text}): the whole answer at once
SendJson(c, status, key, text) ==
    [c EXCEPT !.pc = "done", !.status = status, !.ctype = "json",
              !.body = JsonStringify(key, text), !.headersSent = TRUE,
              !.ended = TRUE, !.sends = c.sends + 1]

\* res.write(chunkText): sends the headers (status 200, text/plain) when they
\* have not been sent, then the chunk
WriteChunkFirst(written, chunkText) == <<chunkText>> \o written
WriteChunk(written, chunkText) == Append(written, chunkText)
Write(c, chunkText) ==
    [c EXCEPT !.written = WriteChunk(c.written, chunkText), !.headersSent = TRUE,
              !.status = 200, !.ctype = "text"]

\* res.end() of the streamed answer
End(c) ==
    [c EXCEPT !.pc = "done", !.status = 200, !.ctype = "text", !.body = Join(c.written),
              !.headersSent = TRUE, !.ended = TRUE, !.sends = c.sends + 1]

\* the catch block: a JSON error when no header has been sent, else res.end()
ChatCatch(c) ==
    IF ~c.headersSent THEN SendJson(c, 500, "error", <<"Internal Server Error">>) ELSE End(c)

\* from "if (!config)" to the call of the model: the message is checked, the
\* prompt and the history are built and sendMessageStream is called
ChatWithConfig(c) ==
    IF ~c.config.given
    THEN SendJson(c, 400, "error", <<"Business not configured">>)
    ELSE IF MessageMissing(c.r.message)
    THEN SendJson(c, 400, "error", <<"Message is required">>)
    ELSE IF MapThrows(c.r.history)
    THEN ChatCatch(c)
    ELSE [c EXCEPT !.pc = "send",
                   !.calls = Append(c.calls,
                       [systemPrompt |-> systemPrompt(c.config),
                        history |-> formattedHistory(c.r.history),
                        message |-> c.r.message.text])]

\* the request arrives; the handler runs to its first await
ChatReceiveIgnoringConfig(r, origin) ==
    [IdleChat EXCEPT !.r = r, !.origin = origin, !.isDemoMode = r.config.given,
                     !.pc = "getUser", !.authChecks = 1]
ChatReceive(r, origin) ==
    LET c == [IdleChat EXCEPT !.r = r, !.origin = origin, !.isDemoMode = r.config.given] IN
    IF ~r.hasBody
    THEN SendJson(c, 400, "error", <<"Missing request body">>)
    ELSE IF r.config.given
    THEN ChatWithConfig([c EXCEPT !.config = r.config])
    ELSE [c EXCEPT !.pc = "getUser", !.authChecks = 1]

\* getUser has answered
ChatGetUser(c) ==
    LET user == getUser(c.r.token) IN
    IF user = NULL THEN SendJson(c, 401, "error", <<"Unauthorized">>)
    ELSE IF c.r.token = NoToken THEN SendJson(c, 401, "error", <<"Missing token">>)
    ELSE [c EXCEPT !.pc = "load", !.user = user, !.dbReads = c.dbReads + 1]

\* the businesses row of the user has been read
ChatLoad(c) ==
    LET dbConfig == BusinessOfUser(c.user) IN
    IF c.r.db = "err" \/ dbConfig = NoRow
    THEN SendJson(c, 400, "error", <<"Business configuration not found">>)
    ELSE ChatWithConfig([c EXCEPT !.config = ConfigOfRow(dbConfig)])

\* sendMessageStream has answered
ChatSent(c) ==
    IF c.r.ai.fail = "send" THEN ChatCatch(c) ELSE [c EXCEPT !.pc = "stream"]

\* one turn of "for await (const chunk of result.stream)", or what follows
\* the loop
ChatStream(c) ==
    LET chunks == c.r.ai.chunks IN
    IF c.produced < Len(chunks)
    THEN LET chunkText == chunks[c.produced + 1]
             n == [c EXCEPT !.produced = c.produced + 1]
         IN IF c.isDemoMode
            THEN [n EXCEPT !.fullResponse = c.fullResponse \o chunkText]
            ELSE Write(n, chunkText)
    ELSE IF c.r.ai.fail = "stream" THEN ChatCatch(c)
    ELSE IF c.isDemoMode THEN SendJson(c, 200, "response", c.fullResponse)
    ELSE End(c)

(***************************************************************************)
(* The browser: ChatDemoView and VoiceDemoView                             *)
(***************************************************************************)
NoFetch == [url |-> "none", token |-> NoToken, inline |-> FALSE]
Fetch(url, token, inline) == [url |-> url, token |-> token, inline |-> inline]

\* App's state (view, isDemoMode, session, config) and the state of the view
\* shown: messages and isLoading of ChatDemoView, the utterances handed to
\* speak() and the status of VoiceDemoView, the plan chosen in BillingView,
\* isAuthenticated of AdminView; turns counts the messages sent from the view
\* and fetch is the last request sent
Browser(view, isDemoMode, session, config) ==
    [view |-> view, isDemoMode |-> isDemoMode, session |-> session, config |-> config,
     messages |-> <<>>, isLoading |-> FALSE, spoken |-> <<>>, status |-> "Idle",
     turns |-> 0, modal |-> NULL, isAuthenticated |-> FALSE, fetch |-> NoFetch]

ChatMessage(role, content) == [role |-> role, content |-> content, defined |-> TRUE]
\* a message whose content is undefined
NoContent(role) == [role |-> role, content |-> <<>>, defined |-> FALSE]

\* useState([{role: 'assistant', content: config.greeting || 'Hello!'}])
InitialMessages(config) ==
    <<ChatMessage("assistant", <<StrOrDefault(config.greeting, "Hello!")>>)>>

\* messages.map(m => ({role: m.role, content: m.content}))
RECURSIVE HistoryOf(_)
HistoryOf(messages) ==
    IF messages = <<>> THEN <<>>
    ELSE <<Entry(Head(messages).role, Head(messages).content)>>
         \o HistoryOf(Tail(messages))

\* what the user may type or say
Inputs == { <<"H", "i">>, <<" ">>, <<>> }

MaxTurns == 1        \* messages the user sends from a view while it is shown

\* config: isDemoMode ? (config || {}) : undefined
InlineConfig(u) ==
    IF ~u.isDemoMode THEN NoConfig
    ELSE IF u.config.given THEN u.config ELSE EmptyConfig

\* fetch in demo mode; authenticatedFetch adds the token of the session
FetchToken(u) == IF u.isDemoMode \/ u.session = NULL THEN NoToken ELSE u.session

ViewRequest(u, text, history, db, ai) ==
    [hasBody |-> TRUE, config |-> InlineConfig(u), token |-> FetchToken(u),
     message |-> Message(text), history |-> history, db |-> db, ai |-> ai]

\* the server takes one chat request at a time
ChatFree == chat.pc = "idle" \/ (chat.pc = "done" /\ chat.origin = "raw")

\* ChatDemoView.handleSend, to the await of the fetch
handleSend(input, db, ai) ==
    /\ ui.view = "chat-demo"
    /\ Trim(input) # <<>> /\ ~ui.isLoading
    /\ ui.turns < MaxTurns
    /\ ChatFree
    /\ LET r == ViewRequest(ui, input, ArrayOf(HistoryOf(ui.messages)), db, ai) IN
       /\ ui' = [ui EXCEPT !.messages = Append(ui.messages, ChatMessage("user", input)),
                           !.isLoading = TRUE, !.turns = ui.turns + 1,
                           !.fetch = Fetch("/api/chat", r.token, r.config.given)]
       /\ chat' = ChatReceive(r, "chat-demo")
    /\ UNCHANGED <<businesses, payment_requests, call_logs, outbox, req, resp, admin, callbacks, vad>>

\* data = await res.json(); content: data.response; catch: 'Connection failed.'
DecodeChat(body) ==
    LET data == JsonParse(body) IN
    IF ~data.ok THEN ChatMessage("assistant", <<"Connection failed.">>)
    ELSE IF data.kind = "object" /\ data.key = "response"
    THEN ChatMessage("assistant", data.value)
    ELSE NoContent("assistant")

\* ChatDemoView.handleSend, from the answer on
handleSendDone ==
    /\ ui.view = "chat-demo" /\ ui.isLoading
    /\ chat.pc = "done" /\ chat.origin = "chat-demo"
    /\ ui' = [ui EXCEPT !.messages = Append(ui.messages, DecodeChat(chat.body)),
                        !.isLoading = FALSE]
    /\ chat' = IdleChat
    /\ UNCHANGED <<businesses, payment_requests, call_logs, outbox, req, resp, admin, callbacks, vad>>

Punctuation == {".", "!", "?"}

\* the last index of the run of punctuation that begins at i
RECURSIVE RunEnd(_, _)
RunEnd(t, i) == IF i < Len(t) /\ t[i + 1] \in Punctuation THEN RunEnd(t, i + 1) ELSE i

\* buffer.split(/([.!?]+(?:\s|$))/): the length of sentences[0] + sentences[1],
\* 0 when the buffer has no sentence boundary at or after i
RECURSIVE SentenceEnd(_, _)
SentenceEnd(t, i) ==
    IF i > Len(t) THEN 0
    ELSE IF t[i] \in Punctuation
    THEN LET j == RunEnd(t, i) IN
         IF j = Len(t) THEN j
         ELSE IF IsSpace(t[j + 1]) THEN j + 1
         ELSE SentenceEnd(t, j + 1)
    ELSE SentenceEnd(t, i + 1)

\* one reader.read() with a value
ReadChunk(st, chunk) ==
    LET buffer == st.buffer \o chunk
        n == SentenceEnd(buffer, 1)
        sentenceToSpeak == SubSeq(buffer, 1, n)
    IN IF n > 0 /\ Trim(sentenceToSpeak) # <<>>
       THEN [buffer |-> SubSeq(buffer, n + 1, Len(buffer)),
             spoken |-> Append(st.spoken, Trim(sentenceToSpeak))]
       ELSE [buffer |-> buffer, spoken |-> st.spoken]

\* the read loop over the chunks of the body, then "Speak remaining"
RECURSIVE ReadAll(_, _)
ReadAll(st, chunks) ==
    IF chunks = <<>>
    THEN IF Trim(st.buffer) # <<>> THEN Append(st.spoken, Trim(st.buffer)) ELSE st.spoken
    ELSE ReadAll(ReadChunk(st, Head(chunks)), Tail(chunks))

\* the body as the reader delivers it: the chunks written, or the JSON text
BodyChunks(c) == IF c.ctype = "text" THEN c.written ELSE <<c.body>>

\* VoiceDemoView.processVoiceInput, to the await of the fetch
processVoiceInput(text, db, ai) ==
    /\ ui.view = "phone-demo"
    /\ Trim(text) # <<>> /\ ~ui.isLoading
    /\ ui.turns < MaxTurns
    /\ ChatFree
    /\ LET r == ViewRequest(ui, text, ArrayOf(<<>>), db, ai) IN
       /\ ui' = [ui EXCEPT !.isLoading = TRUE, !.turns = ui.turns + 1,
                           !.status = "Thinking", !.spoken = <<>>,
                           !.fetch = Fetch("/api/chat", r.token, r.config.given)]
       /\ chat' = ChatReceive(r, "phone-demo")
    /\ UNCHANGED <<businesses, payment_requests, call_logs, outbox, req, resp, admin, callbacks, vad>>

\* VoiceDemoView.processVoiceInput, from the answer on
processVoiceInputDone ==
    /\ ui.view = "phone-demo" /\ ui.isLoading
    /\ chat.pc = "done" /\ chat.origin = "phone-demo"
    /\ ui' = IF chat.status \notin 200..299
             THEN [ui EXCEPT !.isLoading = FALSE, !.status = "Error: Connection Failed"]
             ELSE [ui EXCEPT !.isLoading = FALSE, !.status = "Speaking",
                             !.spoken = ReadAll([buffer |-> <<>>, spoken |-> <<>>],
                                                BodyChunks(chat))]
    /\ chat' = IdleChat
    /\ UNCHANGED <<businesses, payment_requests, call_logs, outbox, req, resp, admin, callbacks, vad>>

(***************************************************************************)
(* The browser: App, Auth, Onboarding, the shell and its views             *)
(***************************************************************************)
ShellViews == {"dashboard", "settings", "billing", "admin", "chat-demo", "phone-demo"}

\* authenticatedFetch: the token of the Supabase session, when there is one
SessionToken(u) == IF u.session = NULL THEN NoToken ELSE u.session

\* Onboarding.handleSubmit leaves the backend out in demo mode
SkipsBackendNever(u) == FALSE
SkipsBackend(u) == u.isDemoMode

\* SettingsView shows the locked card in demo mode and asks nothing
SettingsLocked(u) == u.isDemoMode

\* a view is mounted with its initial state; SettingsView and BillingView
\* fetch when they are mounted
Show(u, view) ==
    LET s == [u EXCEPT !.view = view,
                       !.messages = IF view = "chat-demo"
                                    THEN InitialMessages(u.config) ELSE <<>>,
                       !.isLoading = FALSE, !.spoken = <<>>, !.status = "Idle",
                       !.turns = 0, !.modal = NULL, !.isAuthenticated = FALSE]
    IN IF view = "settings" /\ ~SettingsLocked(u)
       THEN [s EXCEPT !.fetch = Fetch("/api/twilio/status", SessionToken(u), FALSE)]
       ELSE IF view = "billing"
       THEN [s EXCEPT !.fetch = Fetch("/api/billing/plans", SessionToken(u), FALSE)]
       ELSE s

\* checkSetup, to the await of the fetch
checkSetup(u) ==
    [Show(u, "loading") EXCEPT !.isLoading = TRUE,
                               !.fetch = Fetch("/api/status", SessionToken(u), FALSE)]

ServerIdle ==
    UNCHANGED <<businesses, payment_requests, call_logs, outbox, req, resp, chat, admin, callbacks, vad>>

\* the page is loaded: App is mounted with its initial state; the Supabase
\* session outlives the page
Reloaded(u) == Browser("loading", FALSE, u.session, NoConfig)

\* the first effect of App: getSession has answered
getSession ==
    /\ ui.view = "loading" /\ ~ui.isLoading
    /\ ui' = IF ui.session # NULL
             THEN checkSetup([ui EXCEPT !.isDemoMode = FALSE])
             ELSE IF ~ui.isDemoMode THEN Show(ui, "auth") ELSE ui
    /\ ServerIdle

\* Auth.handleAuth signs in; onAuthStateChange then runs checkSetup
handleAuth(user) ==
    /\ ui.view = "auth"
    /\ ui' = checkSetup([ui EXCEPT !.session = user, !.isDemoMode = FALSE])
    /\ ServerIdle

\* authenticatedFetch tries the request this many times
retries == 3

\* GET /api/status; db: "ok", or "err" when the query fails
\* an endpoint that never reports a record
StatusOfWithoutRecord(token, db) ==
    IF getUser(token) = NULL
    THEN [status |-> 401, setupCompleted |-> FALSE, config |-> NoConfig]
    ELSE [status |-> 200, setupCompleted |-> FALSE, config |-> NoConfig]
StatusOf(token, db) ==
    LET user == getUser(token) IN
    IF user = NULL THEN [status |-> 401, setupCompleted |-> FALSE, config |-> NoConfig]
    ELSE IF db = "ok" /\ BusinessOfUser(user) # NoRow
    THEN [status |-> 200, setupCompleted |-> TRUE, config |-> ConfigOfRow(BusinessOfUser(user))]
    ELSE [status |-> 200, setupCompleted |-> FALSE, config |-> NoConfig]

\* what may come of the request: the server answers ("answer"), the server
\* answers but its query fails ("db_err"), the server does not accept the
\* token of the session any more ("expired"), or something on the way
\* answers with an error status ("error")
StatusOutcomes == {"answer", "db_err", "expired", "error"}

\* checkSetup, from the answer of /api/status on; failures: the attempts of
\* authenticatedFetch that are rejected before one gets a response
checkSetupDone(failures, outcome) ==
    /\ ui.view = "loading" /\ ui.isLoading
    /\ LET data == IF outcome = "error"
                   THEN [status |-> 500, setupCompleted |-> FALSE, config |-> NoConfig]
                   ELSE StatusOf(IF outcome = "expired" THEN BadToken ELSE ui.fetch.token,
                                 IF outcome = "db_err" THEN "err" ELSE "ok")
           toOnboarding == Show([ui EXCEPT !.config = EmptyConfig], "onboarding")
       IN /\ ui' = IF failures >= retries THEN toOnboarding
                   ELSE IF data.status = 401 THEN toOnboarding
                   ELSE IF data.status \notin 200..299 THEN toOnboarding
                   ELSE IF data.setupCompleted
                   THEN Show([ui EXCEPT !.config = data.config], "dashboard")
                   ELSE toOnboarding
          /\ req' = Request("status", [token |-> ui.fetch.token, failures |-> failures,
                                       outcome |-> outcome])
          /\ resp' = IF failures >= retries THEN NoResponse
                     ELSE Json("status", data.status, "")
    /\ UNCHANGED <<businesses, payment_requests, call_logs, outbox, chat, admin, callbacks, vad>>

handleTryDemo ==
    /\ ui.view = "auth"
    /\ ui' = Show([ui EXCEPT !.isDemoMode = TRUE, !.config = EmptyConfig], "onboarding")
    /\ ServerIdle

\* onComplete(formData)
onComplete(u, formData) == Show([u EXCEPT !.config = ConfigOfForm(formData)], "dashboard")

\* Onboarding.handleSubmit
handleSubmit(formData, db) ==
    /\ ui.view = "onboarding"
    /\ UNCHANGED <<chat, admin, callbacks, vad>>
    /\ IF SkipsBackend(ui)
       THEN /\ ui' = onComplete(ui, formData)
            /\ UNCHANGED <<businesses, payment_requests, call_logs, outbox, req, resp, admin, callbacks, vad>>
       ELSE LET token == SessionToken(ui)
                sent == [ui EXCEPT !.fetch = Fetch("/api/setup", token, FALSE)]
            IN /\ Setup(token, formData, db)
               /\ req' = Request("setup", [token |-> token, body |-> formData, db |-> db])
               /\ ui' = IF resp'.status = 200 \/ resp'.json = "duplicate key"
                        THEN onComplete(sent, formData)
                        ELSE sent

\* the menu of AppShell
onViewChange(view) ==
    /\ ui.view \in ShellViews /\ ~ui.isLoading
    /\ view \in {"dashboard", "settings", "billing"}
    /\ ui' = Show(ui, view)
    /\ ServerIdle

\* the cards of DashboardView and the Admin Access button of SettingsView
onNavigate(view) ==
    /\ ~ui.isLoading
    /\ \/ ui.view = "dashboard" /\ view \in {"chat-demo", "phone-demo", "billing"}
       \/ ui.view = "dashboard" /\ view = "settings" /\ ~ui.isDemoMode
       \/ ui.view = "settings" /\ view = "admin" /\ ~SettingsLocked(ui)
       \/ ui.view = "admin" /\ view = "dashboard" /\ ui.isAuthenticated
    /\ ui' = Show(ui, view)
    /\ ServerIdle

\* window.location.reload(): the buttons of the demo banner and of the
\* locked settings card
reload ==
    /\ ui.isDemoMode /\ ui.view \in {"dashboard", "settings"}
    /\ ui' = Reloaded(ui)
    /\ ServerIdle

handleLogout ==
    /\ ui.view \in ShellViews /\ ~ui.isLoading
    /\ ui' = IF ui.isDemoMode
             THEN Show([ui EXCEPT !.isDemoMode = FALSE, !.config = NoConfig], "auth")
             ELSE Show([ui EXCEPT !.session = NULL, !.config = NoConfig], "auth")
    /\ ServerIdle

\* SettingsView.handleSaveTwilio
handleSaveTwilio(phoneNumber, twilioApi) ==
    /\ ui.view = "settings" /\ ~SettingsLocked(ui)
    /\ UNCHANGED <<chat, admin, callbacks, vad>>
    /\ LET token == SessionToken(ui) IN
       /\ TwilioConnect(token, phoneNumber, twilioApi, "ok")
       /\ req' = Request("connect", [token |-> token, phoneNumber |-> phoneNumber,
                                     twilioApi |-> twilioApi, db |-> "ok"])
       /\ ui' = IF resp'.status = 200 /\ ui.session # NULL
                THEN checkSetup(ui)
                ELSE [ui EXCEPT !.fetch = Fetch("/api/twilio/connect", token, FALSE)]

\* the plan the visitor picks among those BillingView offers, and its price
ChosenPlans == {"pro"}
PlanPrice(plan) == IF plan = "starter" THEN "29" ELSE "149"

\* BillingView: a plan is chosen, PaymentModal opens and fetches the payment
\* details
setSelectedPlan(plan) ==
    /\ ui.view = "billing" /\ ui.modal = NULL
    /\ ui' = [ui EXCEPT !.modal = plan,
                        !.fetch = Fetch("/api/admin/config", SessionToken(ui), FALSE)]
    /\ ServerIdle

\* PaymentModal.handleSubmit with a reference typed in
PaymentSubmit(reference) ==
    /\ ui.view = "billing" /\ ui.modal # NULL
    /\ reference # ""
    /\ UNCHANGED <<chat, admin, callbacks, vad>>
    /\ LET token == SessionToken(ui)
           body == [plan |-> ui.modal, amount |-> PlanPrice(ui.modal),
                    paymentMethod |-> "payoneer", reference |-> reference,
                    businessId |-> NULL]
       IN /\ Pay(token, body, "ok")
          /\ req' = Request("pay", [token |-> token, body |-> body, db |-> "ok"])
          /\ ui' = [ui EXCEPT !.fetch = Fetch("/api/billing/pay", token, FALSE),
                              !.modal = IF resp'.status = 200 THEN NULL ELSE ui.modal]

\* AdminView.fetchPayments with the secret typed in
fetchPayments(secret) ==
    /\ ui.view = "admin" /\ ~ui.isAuthenticated
    /\ ui' = [ui EXCEPT !.isAuthenticated = requireAdmin(secret),
                        !.fetch = Fetch("/api/admin/payments", NoToken, FALSE)]
    /\ ServerIdle

\* AdminView.approvePayment for a payment of the list
approvePayment(id) ==
    /\ ui.view = "admin" /\ ui.isAuthenticated
    /\ \E p \in payment_requests : p.id = id
    /\ UNCHANGED <<chat, admin, callbacks, vad>>
    /\ Approve(ADMIN_SECRET, id, TRUE, TRUE, TRUE, TRUE)
    /\ req' = Request("approve", [secret |-> ADMIN_SECRET, requestId |-> id, markOk |-> TRUE,
                                  firstOk |-> TRUE, secondOk |-> TRUE, mail |-> TRUE])
    /\ ui' = [ui EXCEPT !.fetch = Fetch("/api/admin/payments", NoToken, FALSE)]

(***************************************************************************)
(* The endpoints under /api/admin, one step per await.  Several requests   *)
(* are handled at a time: admin[i] is the handler of the i-th of them.     *)
(***************************************************************************)
MaxHandlers == 2       \* admin requests handled at the same time
MaxMails == 1          \* test mails are not sent beyond this length of outbox

Slots == 1..MaxHandlers

\* A request: the x-admin-secret header, the requestId of the body, and what
\* its calls will meet: markOk, firstOk, secondOk as for Approve; listOk: the
\* query of /api/admin/payments succeeds; mail: "ok", "fail" (the transporter
\* rejects) or "off" (EMAIL_PASSWORD or the sender is not set)
AdminArg(secret, requestId) ==
    [secret |-> secret, requestId |-> requestId, markOk |-> TRUE, firstOk |-> TRUE,
     secondOk |-> TRUE, listOk |-> TRUE, mail |-> "ok"]

\* reads, writes, mails: the database reads, database writes and mails of the
\* handler so far; attempts: the calls of res.json; sent: the responses that
\* went out; late: the database writes made after the response went out
IdleAdmin ==
    [pc |-> "idle", op |-> "none", arg |-> AdminArg("", NULL), request |-> NoRow,
     reads |-> 0, writes |-> 0, mails |-> 0, attempts |-> 0, sent |-> 0, late |-> 0,
     status |-> 0, json |-> ""]

\* res.status(status).json(..): the response goes out unless one has gone
\* out before (then the call throws ERR_HTTP_HEADERS_SENT)
Respond(h, status, json) ==
    IF h.sent = 0
    THEN [h EXCEPT !.attempts = h.attempts + 1, !.sent = 1, !.status = status, !.json = json]
    ELSE [h EXCEPT !.attempts = h.attempts + 1]

Finish(h) == [h EXCEPT !.pc = "done"]

\* a database write of the handler has been carried out
Wrote(h) == [h EXCEPT !.writes = h.writes + 1, !.late = h.late + h.sent]

\* the routes that are registered with requireAdmin
Guarded(op) == op \in {"payments", "approve", "test-email"}

\* the request arrives: requireAdmin where the route has it, then the handler
\* to its first await
AdminStart(op, arg) ==
    LET h == [IdleAdmin EXCEPT !.op = op, !.arg = arg] IN
    IF Guarded(op) /\ ~requireAdmin(arg.secret)
    THEN Finish(Respond(h, 403, "Forbidden"))
    ELSE CASE op = "config" -> Finish(Respond(h, 200, "payoneerEmail, nayapayId"))
           [] op = "payments" -> [h EXCEPT !.pc = "list"]
           [] op = "approve" -> [h EXCEPT !.pc = "getRequest"]
           [] op = "test-email" ->
                IF arg.mail = "off"
                THEN Finish(Respond(h, 500, "Missing SENDER_EMAIL or EMAIL_PASSWORD"))
                ELSE [h EXCEPT !.pc = "verify"]

\* the catch block of the approve handler
ApproveCatch(h) == Finish(Respond(h, 500, "Approval failed"))

AdminHandlerIdle(i) == admin[i].pc \in {"idle", "done"}
AdminIs(i, op, pc) == admin[i].op = op /\ admin[i].pc = pc
AdminBecomes(i, h) == admin' = [admin EXCEPT ![i] = h]
AdminLeaves == UNCHANGED <<call_logs, req, resp, chat, ui, callbacks, vad>>

\* a request is taken by the first handler that is free
AdminReceive(i, op, arg) ==
    /\ AdminHandlerIdle(i)
    /\ \A j \in Slots : j < i => ~AdminHandlerIdle(j)
    /\ op = "test-email" => Len(outbox) < MaxMails
    /\ AdminBecomes(i, AdminStart(op, arg))
    /\ AdminLeaves /\ UNCHANGED <<businesses, payment_requests, outbox>>

\* GET /api/admin/payments: the query has answered
AdminPayments(i) ==
    /\ AdminIs(i, "payments", "list")
    /\ LET h == [admin[i] EXCEPT !.reads = admin[i].reads + 1] IN
       AdminBecomes(i, IF h.arg.listOk THEN Finish(Respond(h, 200, "payments"))
                       ELSE Finish(Respond(h, 500, "error")))
    /\ AdminLeaves /\ UNCHANGED <<businesses, payment_requests, outbox>>

\* POST /api/admin/test-email: transporter.verify has answered
AdminTestVerify(i) ==
    /\ AdminIs(i, "test-email", "verify")
    /\ AdminBecomes(i, IF admin[i].arg.mail = "ok" THEN [admin[i] EXCEPT !.pc = "sendMail"]
                       ELSE Finish(Respond(admin[i], 500, "SMTP Connection Failed")))
    /\ AdminLeaves /\ UNCHANGED <<businesses, payment_requests, outbox>>

\* POST /api/admin/test-email: sendMail has answered
AdminTestMail(i) ==
    /\ AdminIs(i, "test-email", "sendMail")
    /\ outbox' = Append(outbox, "test")
    /\ AdminBecomes(i, Finish(Respond([admin[i] EXCEPT !.mails = admin[i].mails + 1],
                                      200, "SMTP Verified")))
    /\ AdminLeaves /\ UNCHANGED <<businesses, payment_requests>>

\* POST /api/admin/approve: "1. Get Request" has answered
ApproveGetRequest(i) ==
    /\ AdminIs(i, "approve", "getRequest")
    /\ LET h == [admin[i] EXCEPT !.reads = admin[i].reads + 1]
           request == SingleBy({r \in payment_requests : r.id = h.arg.requestId})
       IN AdminBecomes(i,
            IF request = NoRow THEN Finish(Respond(h, 404, "Request not found"))
            ELSE IF request.status = "approved"
            THEN Finish(Respond(h, 400, "Already approved"))
            ELSE [h EXCEPT !.request = request, !.pc = "getBusiness"])
    /\ AdminLeaves /\ UNCHANGED <<businesses, payment_requests, outbox>>

\* "1.5 Get business info for email" has answered
ApproveGetBusiness(i) ==
    /\ AdminIs(i, "approve", "getBusiness")
    /\ AdminBecomes(i, [admin[i] EXCEPT !.reads = admin[i].reads + 1, !.pc = "mark"])
    /\ AdminLeaves /\ UNCHANGED <<businesses, payment_requests, outbox>>

\* "2. Mark request as approved" has answered
ApproveMark(i) ==
    /\ AdminIs(i, "approve", "mark")
    /\ LET h == admin[i] IN
       IF h.arg.markOk
       THEN /\ payment_requests' = SetApproved(payment_requests, h.arg.requestId)
            /\ AdminBecomes(i, [Wrote(h) EXCEPT !.pc = "update"])
       ELSE /\ UNCHANGED payment_requests
            /\ AdminBecomes(i, ApproveCatch(h))
    /\ AdminLeaves /\ UNCHANGED <<businesses, outbox>>

\* res.json({success: true, message: 'Approved and updated'}); the handler
\* goes on to its second update of the business
ApproveRespond(h) == [Respond(h, 200, "Approved and updated") EXCEPT !.pc = "update2"]

\* "3. Update Business Limits" has answered; its result is not looked at
ApproveUpdate(i) ==
    /\ AdminIs(i, "approve", "update")
    /\ LET h == admin[i]
           n == IF h.arg.firstOk THEN Wrote(h) ELSE h
       IN /\ businesses' = IF h.arg.firstOk
                           THEN SetPlan(businesses, h.request.business_id, h.request.plan,
                                        FirstLimit(h.request.plan))
                           ELSE businesses
          /\ AdminBecomes(i, IF h.request.email # NULL /\ h.arg.mail # "off"
                             THEN [n EXCEPT !.pc = "mail"]
                             ELSE ApproveRespond(n))
    /\ AdminLeaves /\ UNCHANGED <<payment_requests, outbox>>

\* "4. Send Confirmation Email": sendMail has answered; a failure is caught
ApproveMail(i) ==
    /\ AdminIs(i, "approve", "mail")
    /\ LET h == admin[i] IN
       IF h.arg.mail = "ok"
       THEN /\ outbox' = Append(outbox, h.arg.requestId)
            /\ AdminBecomes(i, ApproveRespond([h EXCEPT !.mails = h.mails + 1]))
       ELSE /\ UNCHANGED outbox
            /\ AdminBecomes(i, ApproveRespond(h))
    /\ AdminLeaves /\ UNCHANGED <<businesses, payment_requests>>

\* the second "3. Update Business" has answered
ApproveUpdate2(i) ==
    /\ AdminIs(i, "approve", "update2")
    /\ LET h == admin[i] IN
       IF h.arg.secondOk
       THEN /\ businesses' = SetPlan(businesses, h.request.business_id, h.request.plan,
                                     SecondLimit(h.request.plan))
            /\ AdminBecomes(i, [Wrote(h) EXCEPT !.pc = "mark2"])
       ELSE /\ UNCHANGED businesses
            /\ AdminBecomes(i, ApproveCatch(h))
    /\ AdminLeaves /\ UNCHANGED <<payment_requests, outbox>>

\* the second "4. Mark Request Approved" has answered; res.json is called
\* again, throws, and the catch block calls it once more
ApproveMark2(i) ==
    /\ AdminIs(i, "approve", "mark2")
    /\ payment_requests' = SetApproved(payment_requests, admin[i].arg.requestId)
    /\ AdminBecomes(i, ApproveCatch(Respond(Wrote(admin[i]), 200, "Plan activated")))
    /\ AdminLeaves /\ UNCHANGED <<businesses, outbox>>

(***************************************************************************)
(* POST /webhooks/twilio/status, one step per await.  callbacks[i] is the  *)
(* handler of the i-th status callback Twilio delivers.                    *)
(***************************************************************************)
MaxDeliveries == 2     \* status callbacks that are delivered

Deliveries == 1..MaxDeliveries

NoUsage == [id |-> NULL, minutes_used |-> NONUM]

IdleCallback ==
    [pc |-> "idle",
     arg |-> [sig |-> "", CallSid |-> NULL, CallStatus |-> "", CallDuration |-> <<>>,
              To |-> ""],
     business |-> NoUsage, status |-> 0]

CallbackIs(i, pc) == callbacks[i].pc = pc
CallbackBecomes(i, h) == callbacks' = [callbacks EXCEPT ![i] = h]
CallbackLeaves == UNCHANGED <<payment_requests, outbox, req, resp, chat, ui, admin, vad>>

\* res.sendStatus(200)
StatusDone(h) == [h EXCEPT !.pc = "done", !.status = 200]

\* the callback arrives; the update of call_logs is sent off
StatusReceive(i, r) ==
    /\ CallbackIs(i, "idle")
    /\ \A j \in Deliveries : j < i => ~CallbackIs(j, "idle")
    /\ CallbackBecomes(i, IF validateTwilioRequest(r.sig)
                          THEN [callbacks[i] EXCEPT !.arg = r, !.pc = "log"]
                          ELSE [callbacks[i] EXCEPT !.arg = r, !.pc = "done", !.status = 403])
    /\ CallbackLeaves /\ UNCHANGED <<businesses, call_logs>>

\* "Update call log status" has answered
StatusLog(i) ==
    /\ CallbackIs(i, "log")
    /\ LET h == callbacks[i]
           SetStatus(row) == [row EXCEPT !.status = h.arg.CallStatus,
                                         !.duration = ParseIntOrZero(h.arg.CallDuration)]
       IN /\ call_logs' = UpdateLogs(h.arg.CallSid, SetStatus)
          /\ CallbackBecomes(i, IF MinutesToAdd(h.arg.CallStatus, h.arg.CallDuration) > 0
                                THEN [h EXCEPT !.pc = "read"]
                                ELSE StatusDone(h))
    /\ CallbackLeaves /\ UNCHANGED businesses

\* "1. Get current usage" has answered
StatusRead(i) ==
    /\ CallbackIs(i, "read")
    /\ LET h == callbacks[i]
           business == BusinessOfNumber(h.arg.To)
       IN CallbackBecomes(i,
            IF business = NoRow THEN StatusDone(h)
            ELSE [h EXCEPT !.pc = "write",
                           !.business = [id |-> business.id,
                                         minutes_used |-> business.minutes_used]])
    /\ CallbackLeaves /\ UNCHANGED <<businesses, call_logs>>

\* the update of minutes_used has answered
StatusWrite(i) ==
    /\ CallbackIs(i, "write")
    /\ LET h == callbacks[i]
           newUsage == OrDefault(h.business.minutes_used, 0)
                           + MinutesToAdd(h.arg.CallStatus, h.arg.CallDuration)
       IN /\ businesses' = { IF b.id = h.business.id
                             THEN [b EXCEPT !.minutes_used = newUsage] ELSE b :
                             b \in businesses }
          /\ CallbackBecomes(i, StatusDone(h))
    /\ CallbackLeaves /\ UNCHANGED call_logs

(***************************************************************************)
(* useAudioVAD: the volume monitor of the voice view.  Times are in        *)
(* milliseconds as Date.now() gives them; a tick is one run of the         *)
(* setInterval callback.                                                   *)
(***************************************************************************)
MaxNow == 6500         \* the clock is not driven beyond this time

SILENCE_THRESHOLD == 700
MAX_DURATION == 6000
\* 0.05, as a fraction
VOLUME_THRESHOLD == [num |-> 5, den |-> 100]
fftSize == 256
\* analyser.frequencyBinCount
bufferLength == fftSize \div 2

\* average > VOLUME_THRESHOLD, with average = sum / bufferLength / 255 and
\* sum the sum of the bytes of dataArray
Loud(sum) == sum * VOLUME_THRESHOLD.den > VOLUME_THRESHOLD.num * bufferLength * 255

\* now - lastSpeechTimeRef.current >= SILENCE_THRESHOLD
SilenceElapsedInclusive(now, lastSpeechTime) == now - lastSpeechTime >= SILENCE_THRESHOLD
\* now - lastSpeechTimeRef.current > SILENCE_THRESHOLD
SilenceElapsed(now, lastSpeechTime) == now - lastSpeechTime > SILENCE_THRESHOLD

\* a call of one of the two callbacks of the hook; why: "silence" or "max"
\* for onSpeechEnd
Call(fn, why) == [fn |-> fn, why |-> why]
SpeechStart == Call("onSpeechStart", "volume")
SilenceEnd == Call("onSpeechEnd", "silence")
HardStop == Call("onSpeechEnd", "max")

\* now: the clock; sum, calls: the volume read and the callbacks called by the
\* latest tick; last: the latest of onSpeechStart and the silence-triggered
\* onSpeechEnd called since monitoring started
IdleVAD ==
    [isMonitoring |-> FALSE, isSpeaking |-> FALSE, speechStartTime |-> 0,
     lastSpeechTime |-> 0, now |-> 0, sum |-> 0, calls |-> <<>>, last |-> "none"]

VADLeaves ==
    UNCHANGED <<businesses, payment_requests, call_logs, outbox, req, resp, chat, ui,
                admin, callbacks>>

startMonitoring ==
    /\ ~vad.isMonitoring
    /\ vad' = [vad EXCEPT !.isMonitoring = TRUE, !.speechStartTime = 0,
                          !.lastSpeechTime = vad.now, !.isSpeaking = FALSE,
                          !.calls = <<>>, !.last = "none"]
    /\ VADLeaves

stopMonitoring ==
    /\ vad.isMonitoring
    /\ vad' = [vad EXCEPT !.isMonitoring = FALSE, !.calls = <<>>]
    /\ VADLeaves

\* the callback of setInterval runs at time now and reads sum
Tick(now, sum) ==
    /\ vad.isMonitoring
    /\ LET started == Loud(sum) /\ ~vad.isSpeaking
           speechStartTime == IF started THEN now ELSE vad.speechStartTime
           hardStop == Loud(sum) /\ now - speechStartTime > MAX_DURATION
           ended == /\ ~Loud(sum) /\ vad.isSpeaking
                    /\ SilenceElapsed(now, vad.lastSpeechTime)
       IN vad' = [vad EXCEPT
                    !.now = now,
                    !.sum = sum,
                    !.lastSpeechTime = IF Loud(sum) THEN now ELSE vad.lastSpeechTime,
                    !.isSpeaking = IF started THEN TRUE
                                   ELSE IF ended THEN FALSE ELSE vad.isSpeaking,
                    !.speechStartTime = speechStartTime,
                    !.calls = (IF started THEN <<SpeechStart>> ELSE <<>>)
                              \o (IF hardStop THEN <<HardStop>> ELSE <<>>)
                              \o (IF ended THEN <<SilenceEnd>> ELSE <<>>),
                    !.last = IF started THEN "onSpeechStart"
                             ELSE IF ended THEN "onSpeechEnd" ELSE vad.last]
    /\ VADLeaves

(***************************************************************************)
(* Specifications                                                          *)
(***************************************************************************)
vars == <<businesses, payment_requests, call_logs, outbox, req, resp, chat, ui, admin, callbacks, vad>>

\* The requests the handlers are called with.
SetupRequests ==
    { [token |-> t, body |-> b, db |-> "ok"] : t \in Tokens, b \in SetupBodies }
    \cup { [token |-> "u1", body |-> b, db |-> "err"] : b \in SetupBodies }
ConnectRequests ==
    { [token |-> t, phoneNumber |-> "+1555", twilioApi |-> "found", db |-> "ok"] : t \in Tokens }
    \cup { [token |-> "u1", phoneNumber |-> "+1555", twilioApi |-> a, db |-> "ok"] :
              a \in {"notfound", "throw"} }
    \cup { [token |-> "u2", phoneNumber |-> "+1555", twilioApi |-> "found", db |-> "err"] }
PayRequests ==
    { [token |-> t, body |-> b, db |-> "ok"] : t \in Tokens, b \in PayBodies }
    \cup { [token |-> "u1", body |-> b, db |-> d] :
              b \in PayBodies, d \in {"read_err", "write_err"} }
ApproveRequests ==
    { [secret |-> s, requestId |-> id, markOk |-> TRUE, firstOk |-> TRUE,
       secondOk |-> TRUE, mail |-> TRUE] : s \in Secrets, id \in {"r1", "r2", "r9"} }
    \cup { [secret |-> ADMIN_SECRET, requestId |-> "r1", markOk |-> m, firstOk |-> f,
            secondOk |-> g, mail |-> e] : m, f, g, e \in BOOLEAN }
VoiceRequests ==
    { [sig |-> g, To |-> to, CallSid |-> sid, db |-> "ok"] :
          g \in Signatures, to \in Numbers, sid \in CallSids }
    \cup { [sig |-> "valid", To |-> "+1555", CallSid |-> sid, db |-> d] :
              sid \in CallSids, d \in {"read_err", "write_err", "throw"} }
GatherRequests ==
    { [sig |-> g, business_id |-> bid, call_sid |-> sid, db |-> "ok", ai |-> "ok"] :
          g \in Signatures, bid \in {"b1", "b9"}, sid \in AnySids }
    \cup { [sig |-> "valid", business_id |-> "b1", call_sid |-> "CA1", db |-> d, ai |-> "ok"] :
              d \in {"read_err", "write_err", "throw"} }
    \cup { [sig |-> "valid", business_id |-> "b1", call_sid |-> "CA1", db |-> "ok", ai |-> "throw"] }
StatusRequests ==
    { [sig |-> "valid", CallSid |-> "CA1", CallStatus |-> st, CallDuration |-> d, To |-> "+1555"] :
          st \in CallStatuses, d \in CallDurations }
    \cup { [sig |-> g, CallSid |-> sid, CallStatus |-> "completed",
            CallDuration |-> <<"2", "4", "1">>, To |-> to] :
              g \in Signatures, sid \in AnySids, to \in Numbers }

DoSetup ==
    /\ UNCHANGED <<chat, ui, admin, callbacks, vad>>
    /\ \E r \in SetupRequests :
        req' = Request("setup", r) /\ Setup(r.token, r.body, r.db)
DoTwilioConnect ==
    /\ UNCHANGED <<chat, ui, admin, callbacks, vad>>
    /\ \E r \in ConnectRequests :
        req' = Request("connect", r)
        /\ TwilioConnect(r.token, r.phoneNumber, r.twilioApi, r.db)
DoPay ==
    /\ UNCHANGED <<chat, ui, admin, callbacks, vad>>
    /\ \E r \in PayRequests :
        req' = Request("pay", r) /\ Pay(r.token, r.body, r.db)
DoApprove ==
    /\ UNCHANGED <<chat, ui, admin, callbacks, vad>>
    /\ \E r \in ApproveRequests :
        req' = Request("approve", r)
        /\ Approve(r.secret, r.requestId, r.markOk, r.firstOk, r.secondOk, r.mail)
DoVoiceWebhook ==
    /\ UNCHANGED <<chat, ui, admin, callbacks, vad>>
    /\ Len(call_logs) < MaxLogs
    /\ \E r \in VoiceRequests :
          req' = Request("voice", r) /\ VoiceWebhook(r.sig, r.To, r.CallSid, r.db)
DoGatherWebhook ==
    /\ UNCHANGED <<chat, ui, admin, callbacks, vad>>
    /\ \E r \in GatherRequests :
        req' = Request("gather", r)
        /\ GatherWebhook(r.sig, r.business_id, r.call_sid, r.db, r.ai)
DoStatusWebhook ==
    /\ UNCHANGED <<chat, ui, admin, callbacks, vad>>
    /\ \A b \in businesses : b.minutes_used < MaxUsed
    /\ \E r \in StatusRequests :
          req' = Request("status", r)
          /\ StatusWebhook(r.sig, r.CallSid, r.CallStatus, r.CallDuration, r.To)

\* Onboarding and billing, from an empty database.
InitBilling ==
    /\ businesses = {}
    /\ payment_requests = {}
    /\ call_logs = <<>>
    /\ outbox = <<>>
    /\ req = NoRequest
    /\ resp = NoResponse
    /\ chat = IdleChat
    /\ admin = [i \in Slots |-> IdleAdmin]
    /\ callbacks = [i \in Deliveries |-> IdleCallback]
    /\ vad = IdleVAD
    /\ ui = Browser("loading", FALSE, NULL, NoConfig)

NextBilling ==
    \/ DoSetup
    \/ DoPay
    \/ DoApprove

SpecBilling == InitBilling /\ [][NextBilling]_vars

\* Onboarding and payment submission alone: what users can do without the
\* administrator.
NextPay ==
    \/ DoSetup
    \/ DoPay

SpecPay == InitBilling /\ [][NextPay]_vars

\* Telephony.  The database holds the two tenants after onboarding; the first
\* has no plan yet, or has had a 'free' or a 'starter' plan approved.
Tenant1(plan) ==
    [NewBusiness("b1", "u1", AcmeForm)
        EXCEPT !.subscription_plan = plan,
               !.minutes_limit = IF plan = NULL THEN NONUM ELSE SecondLimit(plan)]
Tenant2 ==
    NewBusiness("b2", "u2", BoltForm)

Init ==
    /\ \E plan \in {NULL, "free", "starter"} : businesses = {Tenant1(plan), Tenant2}
    /\ payment_requests = {}
    /\ call_logs = <<>>
    /\ outbox = <<>>
    /\ req = NoRequest
    /\ resp = NoResponse
    /\ chat = IdleChat
    /\ admin = [i \in Slots |-> IdleAdmin]
    /\ callbacks = [i \in Deliveries |-> IdleCallback]
    /\ vad = IdleVAD
    /\ ui = Browser("loading", FALSE, NULL, NoConfig)

Next ==
    \/ DoTwilioConnect
    \/ DoVoiceWebhook
    \/ DoGatherWebhook
    \/ DoStatusWebhook

Spec == Init /\ [][Next]_vars

\* The chat endpoint and the two demo views.  A request comes from a view or
\* from any other client (origin "raw").
\* histories a client may send: arrays whose entries carry the roles of the
\* chat view, of the model's own API or none, a null entry, and values that
\* are not arrays
Histories ==
    { ArrayOf(<<Entry("user", <<"H", "i">>), Entry("assistant", <<"Hello!">>)>>),
      ArrayOf(<<Entry("assistant", <<"Hello!">>), Entry("system", <<"x">>),
                Entry("assistant", <<>>)>>),
      ArrayOf(<<Entry("model", <<"Hello!">>), Entry("", <<"x">>)>>),
      ArrayOf(<<Entry("user", <<"H", "i">>), NullEntry>>),
      NotArray(<<>>),
      NotArray(<<Entry("assistant", <<"Hello!">>)>>) }

RawChatRequests ==
    { [hasBody |-> TRUE, config |-> c, token |-> t, message |-> m,
       history |-> ArrayOf(<<>>),
       db |-> "ok", ai |-> Script(<< <<"H", "i", ".">>, <<" ", "O", "k">> >>, "no")] :
          c \in {NoConfig, EmptyConfig, ConfigOfForm(BoltForm)}, t \in Tokens,
          m \in {NoMessage, Message(<<>>), Message(<<" ">>), Message(<<"H", "i">>)} }
    \cup { [NoChatRequest EXCEPT !.token = t] : t \in {NoToken, "u1"} }
    \cup { [hasBody |-> TRUE, config |-> c, token |-> "u1", message |-> Message(<<"H", "i">>),
            history |-> h, db |-> d, ai |-> a] :
              c \in {NoConfig, ConfigOfForm(AcmeForm)},
              h \in { ArrayOf(<<>>),
                      ArrayOf(<<Entry("assistant", <<"Hello!">>), Entry("user", <<>>)>>) },
              d \in {"ok", "err"}, a \in Scripts }
    \cup { [hasBody |-> TRUE, config |-> EmptyConfig, token |-> NoToken,
            message |-> Message(<<"H", "i">>), history |-> h, db |-> "ok",
            ai |-> Script(<< <<"O", "k">> >>, "no")] : h \in Histories }

DoChat ==
    /\ ChatFree
    /\ \E r \in RawChatRequests : chat' = ChatReceive(r, "raw")
    /\ UNCHANGED <<businesses, payment_requests, call_logs, outbox, req, resp, ui, admin, callbacks, vad>>

ChatStep(pc, next) ==
    /\ chat.pc = pc
    /\ chat' = next
    /\ UNCHANGED <<businesses, payment_requests, call_logs, outbox, req, resp, ui, admin, callbacks, vad>>
DoChatGetUser == ChatStep("getUser", ChatGetUser(chat))
DoChatLoad == ChatStep("load", ChatLoad(chat))
DoChatSent == ChatStep("send", ChatSent(chat))
DoChatStream == ChatStep("stream", ChatStream(chat))

DoHandleSend == \E input \in Inputs, ai \in Scripts : handleSend(input, "ok", ai)
DoProcessVoiceInput == \E text \in Inputs, ai \in Scripts : processVoiceInput(text, "ok", ai)

\* the user has opened one of the two views: in demo mode with the
\* configuration typed into the onboarding form, or signed in as u1 with the
\* configuration that /api/status returned
InitChat ==
    /\ businesses = {Tenant1(NULL)}
    /\ payment_requests = {}
    /\ call_logs = <<>>
    /\ outbox = <<>>
    /\ req = NoRequest
    /\ resp = NoResponse
    /\ chat = IdleChat
    /\ admin = [i \in Slots |-> IdleAdmin]
    /\ callbacks = [i \in Deliveries |-> IdleCallback]
    /\ vad = IdleVAD
    /\ \E view \in {"chat-demo", "phone-demo"} :
          \E b \in { Browser(view, TRUE, NULL, ConfigOfForm(f)) : f \in SetupBodies }
                   \cup { Browser(view, FALSE, "u1", ConfigOfRow(Tenant1(NULL))) } :
              ui = IF view = "chat-demo"
                   THEN [b EXCEPT !.messages = InitialMessages(b.config)]
                   ELSE b

NextChat ==
    \/ DoChat
    \/ DoChatGetUser
    \/ DoChatLoad
    \/ DoChatSent
    \/ DoChatStream
    \/ DoHandleSend
    \/ handleSendDone
    \/ DoProcessVoiceInput
    \/ processVoiceInputDone

SpecChat == InitChat /\ [][NextChat]_vars

\* The browser of one visitor, who may try the demo or sign in as u1; u1 has
\* been onboarded before or not.
DoHandleAuth == handleAuth("u1")
DoCheckSetupDone ==
    \E failures \in 0..retries, outcome \in StatusOutcomes : checkSetupDone(failures, outcome)
DoHandleSubmit == \E formData \in SetupBodies, db \in {"ok", "err"} : handleSubmit(formData, db)
DoOnViewChange == \E view \in ShellViews : onViewChange(view)
DoOnNavigate == \E view \in ShellViews : onNavigate(view)
DoHandleSaveTwilio == \E twilioApi \in {"found", "notfound"} : handleSaveTwilio("+1555", twilioApi)
DoSetSelectedPlan == \E plan \in ChosenPlans : setSelectedPlan(plan)
DoPaymentSubmit == PaymentSubmit("TX1")
DoFetchPayments == \E secret \in Secrets : fetchPayments(secret)
DoApprovePayment == \E id \in {"r1", "r2"} : approvePayment(id)

InitClient ==
    /\ businesses \in { {}, {Tenant1(NULL)} }
    /\ payment_requests = {}
    /\ call_logs = <<>>
    /\ outbox = <<>>
    /\ req = NoRequest
    /\ resp = NoResponse
    /\ chat = IdleChat
    /\ admin = [i \in Slots |-> IdleAdmin]
    /\ callbacks = [i \in Deliveries |-> IdleCallback]
    /\ vad = IdleVAD
    /\ ui = Browser("loading", FALSE, NULL, NoConfig)

NextClient ==
    \/ getSession
    \/ DoHandleAuth
    \/ DoCheckSetupDone
    \/ handleTryDemo
    \/ DoHandleSubmit
    \/ DoOnViewChange
    \/ DoOnNavigate
    \/ reload
    \/ handleLogout
    \/ DoHandleSaveTwilio
    \/ DoSetSelectedPlan
    \/ DoPaymentSubmit
    \/ DoFetchPayments
    \/ DoApprovePayment
    \/ DoHandleSend
    \/ handleSendDone
    \/ DoProcessVoiceInput
    \/ processVoiceInputDone
    \/ DoChatGetUser
    \/ DoChatLoad
    \/ DoChatSent
    \/ DoChatStream

SpecClient == InitClient /\ [][NextClient]_vars

\* The administrator's endpoints.  Two tenants are onboarded; u1 has a
\* pending payment request for 'pro', u2 (no mail address on record) one for
\* 'starter'.
PendingRequest(id, business, plan) ==
    PaymentRequest(id, business.user_id, business,
        [plan |-> plan, amount |-> PlanPrice(plan), paymentMethod |-> "payoneer",
         reference |-> "TX1", businessId |-> NULL])

AdminRequests ==
    { [op |-> op, arg |-> AdminArg(s, "r1")] :
          op \in {"payments", "config", "test-email", "approve"}, s \in Secrets }
    \cup { [op |-> "payments", arg |-> [AdminArg(ADMIN_SECRET, "r1") EXCEPT !.listOk = FALSE]],
           [op |-> "test-email", arg |-> [AdminArg(ADMIN_SECRET, "r1") EXCEPT !.mail = "fail"]],
           [op |-> "test-email", arg |-> [AdminArg(ADMIN_SECRET, "r1") EXCEPT !.mail = "off"]] }

\* requests to POST /api/admin/approve with the right secret
ApprovalRequests ==
    { [op |-> "approve", arg |-> AdminArg(ADMIN_SECRET, id)] : id \in {"r1", "r2", "r9"} }
    \cup { [op |-> "approve", arg |-> a] :
              a \in { [AdminArg(ADMIN_SECRET, "r1") EXCEPT !.markOk = FALSE],
                      [AdminArg(ADMIN_SECRET, "r1") EXCEPT !.firstOk = FALSE],
                      [AdminArg(ADMIN_SECRET, "r1") EXCEPT !.secondOk = FALSE],
                      [AdminArg(ADMIN_SECRET, "r1") EXCEPT !.firstOk = FALSE, !.secondOk = FALSE],
                      [AdminArg(ADMIN_SECRET, "r1") EXCEPT !.mail = "fail"],
                      [AdminArg(ADMIN_SECRET, "r1") EXCEPT !.mail = "off"] } }

DoAdminReceive == \E i \in Slots, r \in AdminRequests : AdminReceive(i, r.op, r.arg)
DoApproveReceive == \E i \in Slots, r \in ApprovalRequests : AdminReceive(i, r.op, r.arg)
DoAdminPayments == \E i \in Slots : AdminPayments(i)
DoAdminTestVerify == \E i \in Slots : AdminTestVerify(i)
DoAdminTestMail == \E i \in Slots : AdminTestMail(i)
DoApproveGetRequest == \E i \in Slots : ApproveGetRequest(i)
DoApproveGetBusiness == \E i \in Slots : ApproveGetBusiness(i)
DoApproveMark == \E i \in Slots : ApproveMark(i)
DoApproveUpdate == \E i \in Slots : ApproveUpdate(i)
DoApproveMail == \E i \in Slots : ApproveMail(i)
DoApproveUpdate2 == \E i \in Slots : ApproveUpdate2(i)
DoApproveMark2 == \E i \in Slots : ApproveMark2(i)

InitAdmin ==
    /\ businesses = {Tenant1(NULL), Tenant2}
    /\ payment_requests = {PendingRequest("r1", Tenant1(NULL), "pro"),
                           PendingRequest("r2", Tenant2, "starter")}
    /\ call_logs = <<>>
    /\ outbox = <<>>
    /\ req = NoRequest
    /\ resp = NoResponse
    /\ chat = IdleChat
    /\ ui = Browser("loading", FALSE, NULL, NoConfig)
    /\ admin = [i \in Slots |-> IdleAdmin]
    /\ callbacks = [i \in Deliveries |-> IdleCallback]
    /\ vad = IdleVAD

NextAdmin ==
    \/ DoAdminReceive
    \/ DoAdminPayments
    \/ DoAdminTestVerify
    \/ DoAdminTestMail
    \/ DoApproveGetRequest
    \/ DoApproveGetBusiness
    \/ DoApproveMark
    \/ DoApproveUpdate
    \/ DoApproveMail
    \/ DoApproveUpdate2
    \/ DoApproveMark2

SpecAdmin == InitAdmin /\ [][NextAdmin]_vars

NextApprove ==
    \/ DoApproveReceive
    \/ DoApproveGetRequest
    \/ DoApproveGetBusiness
    \/ DoApproveMark
    \/ DoApproveUpdate
    \/ DoApproveMail
    \/ DoApproveUpdate2
    \/ DoApproveMark2

SpecApprove == InitAdmin /\ [][NextApprove]_vars

\* Status callbacks for two calls to the number of one tenant.
StatusSids == {"CA1", "CA2"}

ConnectedTenant ==
    [Tenant1("starter") EXCEPT !.twilio_phone_number = "+1555", !.minutes_used = 0]

StatusDeliveries ==
    { [sig |-> "valid", CallSid |-> sid, CallStatus |-> st, CallDuration |-> d, To |-> "+1555"] :
          sid \in StatusSids, st \in CallStatuses,
          d \in { <<"6", "1">>, <<"2", "4", "1">>, <<"0">> } }

DoStatusReceive == \E i \in Deliveries, r \in StatusDeliveries : StatusReceive(i, r)
DoStatusLog == \E i \in Deliveries : StatusLog(i)
DoStatusRead == \E i \in Deliveries : StatusRead(i)
DoStatusWrite == \E i \in Deliveries : StatusWrite(i)

InitStatus ==
    /\ businesses = {ConnectedTenant, Tenant2}
    /\ payment_requests = {}
    /\ call_logs = <<CallLog(ConnectedTenant, "CA1", "+1555"),
                     CallLog(ConnectedTenant, "CA2", "+1555")>>
    /\ outbox = <<>>
    /\ req = NoRequest
    /\ resp = NoResponse
    /\ chat = IdleChat
    /\ ui = Browser("loading", FALSE, NULL, NoConfig)
    /\ admin = [i \in Slots |-> IdleAdmin]
    /\ callbacks = [i \in Deliveries |-> IdleCallback]
    /\ vad = IdleVAD

NextStatus ==
    \/ DoStatusReceive
    \/ DoStatusLog
    \/ DoStatusRead
    \/ DoStatusWrite

SpecStatus == InitStatus /\ [][NextStatus]_vars

\* Calls to the number of a connected tenant.  When the caller says nothing,
\* Twilio follows the <Redirect> of the voice webhook's answer and posts the
\* same call to /webhooks/twilio/voice again.
MaxRedirects == 1      \* redirects that are followed

DoVoiceRedirect ==
    /\ UNCHANGED <<chat, ui, admin, callbacks, vad>>
    /\ req.op = "voice"
    /\ \E k \in DOMAIN resp.twiml : resp.twiml[k] = Redirect
    /\ Len(call_logs) < MaxLogs + MaxRedirects
    /\ req' = Request("voice", [req.arg EXCEPT !.db = "ok"])
    /\ VoiceWebhook(req.arg.sig, req.arg.To, req.arg.CallSid, "ok")

InitCalls ==
    /\ businesses = {ConnectedTenant, Tenant2}
    /\ payment_requests = {}
    /\ call_logs = <<>>
    /\ outbox = <<>>
    /\ req = NoRequest
    /\ resp = NoResponse
    /\ chat = IdleChat
    /\ ui = Browser("loading", FALSE, NULL, NoConfig)
    /\ admin = [i \in Slots |-> IdleAdmin]
    /\ callbacks = [i \in Deliveries |-> IdleCallback]
    /\ vad = IdleVAD

NextCalls ==
    \/ DoVoiceWebhook
    \/ DoVoiceRedirect
    \/ DoGatherWebhook
    \/ DoStatusWebhook

SpecCalls == InitCalls /\ [][NextCalls]_vars

\* The volume monitor.  The timer fires 100 ms after the tick before, or
\* late; the bytes read add up to silence, to exactly the threshold, to just
\* above it, or to a loud sound.
TickGaps == {100, 3100}
Sums == {0, 1632, 1633, 9000}

DoTick == \E gap \in TickGaps, sum \in Sums :
             vad.now + gap <= MaxNow /\ Tick(vad.now + gap, sum)

InitVAD ==
    /\ businesses = {}
    /\ payment_requests = {}
    /\ call_logs = <<>>
    /\ outbox = <<>>
    /\ req = NoRequest
    /\ resp = NoResponse
    /\ chat = IdleChat
    /\ ui = Browser("loading", FALSE, NULL, NoConfig)
    /\ admin = [i \in Slots |-> IdleAdmin]
    /\ callbacks = [i \in Deliveries |-> IdleCallback]
    /\ vad = IdleVAD

NextVAD ==
    \/ startMonitoring
    \/ stopMonitoring
    \/ DoTick

SpecVAD == InitVAD /\ [][NextVAD]_vars

\* Calls and status callbacks for a tenant on the free allowance (no plan,
\* minutes_limit unset) who has used 7 of its 10 minutes, next to the
\* requests its owner may send.
QuotaTenant ==
    [Tenant1(NULL) EXCEPT !.twilio_phone_number = "+1555", !.minutes_used = 7]

InitQuota ==
    /\ businesses = {QuotaTenant, Tenant2}
    /\ payment_requests = {}
    /\ call_logs = <<>>
    /\ outbox = <<>>
    /\ req = NoRequest
    /\ resp = NoResponse
    /\ chat = IdleChat
    /\ ui = Browser("loading", FALSE, NULL, NoConfig)
    /\ admin = [i \in Slots |-> IdleAdmin]
    /\ callbacks = [i \in Deliveries |-> IdleCallback]
    /\ vad = IdleVAD

NextQuota ==
    \/ DoVoiceWebhook
    \/ DoGatherWebhook
    \/ DoStatusReceive
    \/ DoStatusLog
    \/ DoStatusRead
    \/ DoStatusWrite

SpecQuota == InitQuota /\ [][NextQuota]_vars


(***************************************************************************)
(* C1.  An incoming call to the number of a business whose minutes_used    *)
(* (0 when unset) has reached its minutes_limit (10 when unset) is         *)
(* answered with Say, Hangup, no call_logs row is inserted and no Gather   *)
(* is started; what is said is the limit message whenever the business     *)
(* has been looked up.                                                     *)
(***************************************************************************)
UsedOf(b) == IF b.minutes_used = NONUM THEN 0 ELSE b.minutes_used
LimitOf(b) == IF b.minutes_limit = NONUM THEN 10 ELSE b.minutes_limit
OverQuota(b) == UsedOf(b) >= LimitOf(b)
OwnersOf(to) == {b \in businesses : b.twilio_phone_number = to}
HasGather(r) == \E i \in DOMAIN r.twiml : r.twiml[i].verb = "Gather"
IsSayHangup(r) ==
    /\ r.status = 200
    /\ Len(r.twiml) = 2
    /\ r.twiml[1].verb = "Say"
    /\ r.twiml[2].verb = "Hangup"

C1_OverQuotaRefused ==
    [][(req'.op = "voice" /\ \E b \in OwnersOf(req'.arg.To) : OverQuota(b))
        => /\ call_logs' = call_logs
           /\ ~HasGather(resp')
           /\ IsSayHangup(resp')
           /\ req'.arg.db \in {"ok", "write_err"} /\ Cardinality(OwnersOf(req'.arg.To)) = 1
              => resp'.twiml[1].text = "monthly call limit"]_vars

C1_Witness ==
    /\ req.op = "voice"
    /\ resp = SayHangup("voice", "monthly call limit")
    /\ \E b \in businesses :
          b.twilio_phone_number \in Numbers /\ b.minutes_limit = NONUM /\ b.minutes_used = 10

(***************************************************************************)
(* C2.  A status callback with CallStatus 'completed' and a duration of    *)
(* d > 0 seconds sets minutes_used of the business whose number is To to   *)
(* its previous value (0 when unset) plus ceil(d/60) and changes no other  *)
(* row; any other callback leaves the table businesses as it is.           *)
(***************************************************************************)
\* the number of seconds a CallDuration field states (0: none)
SecondsOf(d) ==
    CASE d = <<"2", "4", "1">> -> 241
      [] d = <<"6", "0", "0">> -> 600
      [] d = <<"-", "5">> -> 0 - 5
      [] OTHER -> 0
\* the least number of whole minutes that cover d seconds
MinutesCovering(d) == CHOOSE m \in 0..MaxUsed : 60 * m >= d /\ 60 * (m - 1) < d

C2_StatusAddsMinutes ==
    [][req'.op = "status" =>
        LET r == req'.arg IN
        IF r.CallStatus = "completed" /\ SecondsOf(r.CallDuration) > 0
              /\ Cardinality(OwnersOf(r.To)) = 1
        THEN LET b == CHOOSE x \in OwnersOf(r.To) : TRUE IN
             businesses' = (businesses \ {b}) \cup
                 {[b EXCEPT !.minutes_used =
                       UsedOf(b) + MinutesCovering(SecondsOf(r.CallDuration))]}
        ELSE businesses' = businesses]_vars

C2_Witness ==
    /\ req.op = "status" /\ req.arg.CallStatus = "completed"
    /\ resp = Json("status", 200, "OK")
    /\ \E b \in businesses : b.minutes_used = 10
    /\ \E b \in businesses : b.minutes_used = NONUM

(***************************************************************************)
(* C5.  A setup request of an authenticated user creates the user's        *)
(* Business record when there is none and updates it when there is one:    *)
(* after the request the user has exactly one record, and it holds the     *)
(* values of the request.                                                  *)
(***************************************************************************)
RowsOfUser(rows, u) == {b \in rows : b.user_id = u}
HoldsBody(b, body) ==
    /\ b.business_name = body.name
    /\ b.greeting = body.greeting
    /\ b.working_hours = (IF body.workingHours = "" THEN "9 AM - 5 PM" ELSE body.workingHours)

C5_SetupCreatesOrUpdates ==
    [][(req'.op = "setup" /\ req'.arg.token \in Users /\ req'.arg.db = "ok")
        => /\ Cardinality(RowsOfUser(businesses', req'.arg.token)) = 1
           /\ \A b \in RowsOfUser(businesses', req'.arg.token) : HoldsBody(b, req'.arg.body)]_vars

\* what the handler does keep: one record per user at most
C5_AtMostOneRecord == \A u \in Users : Cardinality(RowsOfUser(businesses, u)) <= 1

(***************************************************************************)
(* C10.  After an approval of a pending payment request for plan P has     *)
(* been handled, the business of the request has subscription_plan P and   *)
(* the minutes_limit advertised for P by GET /api/billing/plans (10 for a  *)
(* plan that is not advertised).                                           *)
(***************************************************************************)
AdvertisedLimit(plan) ==
    IF BillingPlanMinutes(plan) > 0 THEN BillingPlanMinutes(plan) ELSE 10

C10_ApprovedLimitIsAdvertised ==
    [][(/\ req'.op = "approve"
        /\ resp'.status = 200
        /\ req'.arg.markOk /\ req'.arg.firstOk /\ req'.arg.secondOk)
        => \A r \in payment_requests :
              r.id = req'.arg.requestId
              => \E b \in businesses' :
                    /\ b.id = r.business_id
                    /\ b.subscription_plan = r.plan
                    /\ b.minutes_limit = AdvertisedLimit(r.plan)]_vars

(***************************************************************************)
(* C9.  The voice and the gather webhook answer every request with a       *)
(* TwiML document and never with an HTTP error status.  The reply is Say,  *)
(* Hangup when the business is not found, when its lookup fails, when an   *)
(* exception is thrown or when the model call fails; a write to call_logs  *)
(* that fails is not looked at.  Only a call that finds its business (and, *)
(* for the voice webhook, is under quota) receives a Gather, and its       *)
(* action carries that business_id and the call_sid of the request.        *)
(***************************************************************************)
IsTwiml(r) == r.status = 200 /\ r.twiml # <<>> /\ r.json = ""
GatherOf(r) == r.twiml[CHOOSE i \in DOMAIN r.twiml : r.twiml[i].verb = "Gather"]
\* the request meets a failure the handler sees
ReadFails(r) == r.db \in {"read_err", "throw"}

C9_VoiceStep ==
    LET r == req'.arg
        owners == OwnersOf(r.To)
    IN
    /\ IsTwiml(resp')
    /\ (ReadFails(r) \/ Cardinality(owners) # 1) => IsSayHangup(resp')
    /\ HasGather(resp')
       => /\ Cardinality(owners) = 1
          /\ \A b \in owners :
                /\ ~OverQuota(b)
                /\ GatherOf(resp').business_id = b.id
                /\ GatherOf(resp').call_sid = r.CallSid

C9_GatherStep ==
    LET r == req'.arg
        found == {b \in businesses : b.id = r.business_id}
    IN
    /\ IsTwiml(resp')
    /\ (ReadFails(r) \/ found = {} \/ r.ai = "throw")
       => IsSayHangup(resp') /\ call_logs' = call_logs
    /\ HasGather(resp')
       => /\ found # {}
          /\ GatherOf(resp').business_id = r.business_id
          /\ GatherOf(resp').call_sid = r.call_sid

C9_WebhooksAnswerTwiml ==
    [][/\ req'.op = "voice" => C9_VoiceStep
       /\ req'.op = "gather" => C9_GatherStep]_vars

C9_Witness ==
    /\ req.op = "gather" /\ req.arg.ai = "throw"
    /\ resp = SayHangup("gather", "Sorry, I encountered an error.")
    /\ \E b \in businesses : b.id = req.arg.business_id

\* the claim as stated: also every failed database call ends in Say, Hangup
C9_AsStated ==
    [][/\ req'.op = "voice" => C9_VoiceStep
       /\ req'.op = "gather" => C9_GatherStep
       /\ (req'.op \in {"voice", "gather"} /\ req'.arg.db # "ok") => IsSayHangup(resp')]_vars

(***************************************************************************)
(* C3.  A POST /api/chat request that carries a config object is served    *)
(* without an authentication check and without a database read or write:   *)
(* the system prompt comes from the inline config alone, nothing is        *)
(* streamed, and a successful reply is one JSON object {response} that     *)
(* holds the whole output of the model.                                    *)
(***************************************************************************)
CarriesConfig(r) == r.hasBody /\ r.config.given
ModelOutput(r) == Join(r.ai.chunks)
Answered == chat.ended

C3_InlineConfigNoAuthNoDb ==
    /\ [](CarriesConfig(chat.r) =>
            /\ chat.authChecks = 0
            /\ chat.dbReads = 0
            /\ chat.written = <<>>
            /\ \A i \in DOMAIN chat.calls :
                  chat.calls[i].systemPrompt = systemPrompt(chat.r.config)
            /\ (Answered /\ chat.status = 200) =>
                  /\ chat.ctype = "json"
                  /\ chat.sends = 1
                  /\ JsonParse(chat.body) =
                        [NoParse EXCEPT !.ok = TRUE, !.kind = "object", !.key = "response",
                                        !.value = ModelOutput(chat.r)])
    /\ [][CarriesConfig(chat'.r) =>
            UNCHANGED <<businesses, payment_requests, call_logs>>]_vars

C3_Witness ==
    /\ CarriesConfig(chat.r) /\ chat.r.token = NoToken
    /\ Answered /\ chat.status = 200
    /\ Len(chat.r.ai.chunks) = 3
    /\ chat.calls # <<>> /\ chat.calls[1].systemPrompt.name = "Bolt"

(***************************************************************************)
(* C4.  In a demo session (entered with Try Demo, no Supabase session) no  *)
(* action of the user changes a row of businesses, payment_requests or     *)
(* call_logs: onboarding completes without a request to /api/setup, the    *)
(* settings view sends no /api/twilio request, and the chat and voice      *)
(* requests carry the configuration inline.                                *)
(***************************************************************************)
Sends(url) == ui'.fetch # ui.fetch /\ ui'.fetch.url = url

C4_DemoChangesNoRow ==
    [][(ui.isDemoMode \/ ui'.isDemoMode) =>
          /\ UNCHANGED <<businesses, payment_requests, call_logs>>
          /\ ~Sends("/api/setup")
          /\ ~Sends("/api/twilio/status") /\ ~Sends("/api/twilio/connect")
          /\ (ui.view = "onboarding" /\ ui'.view = "dashboard") =>
                /\ ui'.fetch = ui.fetch
                /\ \E formData \in SetupBodies : ui'.config = ConfigOfForm(formData)
          /\ ui'.view = "admin" => ~ui'.isDemoMode
          /\ (chat.pc = "idle" /\ chat'.pc # "idle") =>
                /\ ui'.fetch = Fetch("/api/chat", NoToken, TRUE)
                /\ chat'.r.config.given
                /\ chat'.r.config = ui.config]_vars

C4_Witness ==
    /\ ui.isDemoMode /\ ui.session = NULL
    /\ ui.view = "billing" /\ ui.fetch.url = "/api/billing/pay"
    /\ req.op = "pay" /\ req.arg.token = NoToken /\ resp.status = 401
    /\ ui.config = ConfigOfForm(BoltForm)
    /\ businesses # {}

(***************************************************************************)
(* C6.  POST /api/chat calls the model only when a configuration is        *)
(* available and the message is not empty.  A request without a body is    *)
(* answered 400.  A request with a body and without inline config is       *)
(* answered 401 when its token is missing or invalid, and 400 when the     *)
(* Business record of its user cannot be loaded.  Once the configuration   *)
(* is available, a missing or empty message is answered 400.               *)
(***************************************************************************)
TokenValid(t) == t \in Users
HasBusiness(u) == \E b \in businesses : b.user_id = u
ConfigAvailable(r) ==
    \/ CarriesConfig(r)
    \/ r.hasBody /\ TokenValid(r.token) /\ HasBusiness(r.token) /\ r.db = "ok"
MessageGiven(r) == r.message.given /\ r.message.text # <<>>

Refused(status) == Answered => (chat.status = status /\ chat.ctype = "json" /\ chat.calls = <<>>)

C6_ChatValidates ==
    LET r == chat.r IN
    /\ chat.calls # <<>> => ConfigAvailable(r) /\ MessageGiven(r)
    /\ chat.origin # "none" =>
         /\ ~r.hasBody => Refused(400)
         /\ (r.hasBody /\ ~r.config.given /\ ~TokenValid(r.token)) => Refused(401)
         /\ (r.hasBody /\ ~r.config.given /\ TokenValid(r.token) /\ ~ConfigAvailable(r))
               => Refused(400)
         /\ (ConfigAvailable(r) /\ ~MessageGiven(r)) => Refused(400)

C6_Witness ==
    /\ chat.origin = "raw" /\ Answered
    /\ ~chat.r.config.given /\ chat.r.token = "u1" /\ chat.r.message = Message(<<>>)
    /\ chat.status = 400 /\ chat.dbReads = 1 /\ chat.calls = <<>>

\* the claim as stated: 401 for every request without inline config whose
\* token is missing or invalid, 400 for every request whose message is
\* missing or empty
C6_AsStated ==
    LET r == chat.r IN
    /\ chat.calls # <<>> => ConfigAvailable(r) /\ MessageGiven(r)
    /\ chat.origin # "none" =>
         /\ (~CarriesConfig(r) /\ ~TokenValid(r.token)) => Refused(401)
         /\ (~CarriesConfig(r) /\ TokenValid(r.token) /\ ~HasBusiness(r.token))
               => Refused(400)
         /\ ~MessageGiven(r) => Refused(400)

(***************************************************************************)
(* C7.  For a POST /api/chat without inline config the chunks of the model *)
(* stream are written to the response in the order produced, each once;    *)
(* the response is ended after the last chunk; nothing is written before   *)
(* the Business record of the user has been loaded.                        *)
(***************************************************************************)
Authenticated(r) == r.hasBody /\ ~r.config.given

C7_StreamInOrder ==
    Authenticated(chat.r) =>
      /\ chat.written = SubSeq(chat.r.ai.chunks, 1, chat.produced)
      /\ chat.fullResponse = <<>>
      /\ chat.written # <<>> =>
            /\ chat.dbReads = 1
            /\ HasBusiness(chat.r.token)
            /\ chat.config = ConfigOfRow(BusinessOfUser(chat.r.token))
      /\ (Answered /\ chat.status = 200) =>
            /\ chat.ctype = "text"
            /\ chat.sends = 1
            /\ chat.produced = Len(chat.r.ai.chunks)
            /\ chat.body = ModelOutput(chat.r)
      /\ chat.pc = "stream" => ~chat.ended

C7_Witness ==
    /\ Authenticated(chat.r) /\ Answered /\ chat.status = 200
    /\ Len(chat.written) = 3 /\ chat.r.ai.fail = "no"
    /\ chat.written[1] # chat.written[2]

(***************************************************************************)
(* C8.  For each of ChatDemoView and VoiceDemoView, in demo mode and       *)
(* signed in: when /api/chat has answered with success, the text the view  *)
(* presents as the answer (the message appended to the chat, the text      *)
(* handed to speech synthesis) is the text the model generated.  Speech is *)
(* compared without regard to the white space between utterances.          *)
(***************************************************************************)
RECURSIVE Squeeze(_)
Squeeze(t) ==
    IF t = <<>> THEN <<>>
    ELSE (IF IsSpace(Head(t)) THEN <<>> ELSE <<Head(t)>>) \o Squeeze(Tail(t))

\* a step in which the view takes the successful answer to its request
Presents(view) ==
    /\ chat.pc = "done" /\ chat.origin = view /\ chat.status = 200
    /\ ui.view = view /\ ui.isLoading /\ ~ui'.isLoading

ShownAnswer == ui'.messages[Len(ui'.messages)]

C8_ClientPresentsModelText ==
    [][/\ Presents("chat-demo") =>
             /\ ShownAnswer.role = "assistant" /\ ShownAnswer.defined
             /\ ShownAnswer.content = ModelOutput(chat.r)
       /\ Presents("phone-demo") =>
             Squeeze(Join(ui'.spoken)) = Squeeze(ModelOutput(chat.r))]_vars

\* the two pairs of view and mode that do agree
C8_MatchingFormats ==
    [][/\ (Presents("chat-demo") /\ ui.isDemoMode) =>
             /\ ShownAnswer.role = "assistant" /\ ShownAnswer.defined
             /\ ShownAnswer.content = ModelOutput(chat.r)
       /\ (Presents("phone-demo") /\ ~ui.isDemoMode) =>
             Squeeze(Join(ui'.spoken)) = Squeeze(ModelOutput(chat.r))]_vars

(***************************************************************************)
(* C11.  POST /api/billing/pay inserts a payment_requests row only for an  *)
(* authenticated user whose request has plan, amount, paymentMethod and    *)
(* reference and who has a Business record; the row is 'pending', has the  *)
(* caller's user_id and the id of the caller's own business whatever       *)
(* businessId the body carries; otherwise the answer is 401, 400 or 404    *)
(* and nothing is inserted.                                                *)
(***************************************************************************)
HasAllFields(body) ==
    body.plan # "" /\ body.amount # "" /\ body.paymentMethod # "" /\ body.reference # ""

C11_PayInsertsOnlyForOwner ==
    [][req'.op = "pay" =>
         LET r == req'.arg
             own == {b \in businesses : b.user_id = r.token}
             added == payment_requests' \ payment_requests
         IN /\ payment_requests \subseteq payment_requests'
            /\ Cardinality(added) <= 1
            /\ \A row \in added :
                  /\ TokenValid(r.token) /\ HasAllFields(r.body) /\ own # {}
                  /\ row.status = "pending"
                  /\ row.user_id = r.token
                  /\ \E b \in own : row.business_id = b.id
                  /\ row.plan = r.body.plan
                  /\ resp'.status = 200
            /\ ~TokenValid(r.token) => (resp'.status = 401 /\ added = {})
            /\ (TokenValid(r.token) /\ ~HasAllFields(r.body)) =>
                  (resp'.status = 400 /\ added = {})
            /\ (TokenValid(r.token) /\ HasAllFields(r.body) /\ own = {}) =>
                  (resp'.status = 404 /\ added = {})
            /\ UNCHANGED businesses]_vars

C11_Witness ==
    /\ req.op = "pay" /\ req.arg.body.businessId = "b2" /\ resp.status = 200
    /\ \E b \in businesses : b.id = "b2" /\ b.user_id # req.arg.token
    /\ \E row \in payment_requests :
          /\ row.user_id = req.arg.token /\ row.status = "pending"
          /\ row.business_id # "b2"

(***************************************************************************)
(* C12  The routes under /api/admin that are registered with requireAdmin  *)
(* (GET /api/admin/payments, POST /api/admin/approve, POST                 *)
(* /api/admin/test-email) answer 403 when the x-admin-secret header        *)
(* differs from ADMIN_SECRET, and the request reads no row, writes no row  *)
(* and sends no mail.  GET /api/admin/config is registered without the     *)
(* gate: it answers 200 with the payment details whatever the header, and  *)
(* touches neither the database nor the mail transport.                    *)
(***************************************************************************)
Untouched(h) == h.reads = 0 /\ h.writes = 0 /\ h.mails = 0

WrongSecret(h) == h.op # "none" /\ h.arg.secret # ADMIN_SECRET

MailsFor(id) == Cardinality({k \in DOMAIN outbox : outbox[k] = id})

\* the handler found the request pending and went on to approve it
Approving(h) == h.op = "approve" /\ h.request # NoRow

C17_ApprovedAtMostOnce ==
    /\ \A r \in payment_requests : MailsFor(r.id) <= 1
    /\ \A i, j \in Slots :
          (i # j /\ Approving(admin[i]) /\ Approving(admin[j])) =>
              admin[i].arg.requestId # admin[j].arg.requestId

\* the part that holds: a handler that reads the request after it was marked
\* approved answers 400, one that finds no such request answers 404, and
\* neither changes a row or sends a mail
C17_LaterOnesRefused ==
    [][\A i \in Slots :
          (AdminIs(i, "approve", "getRequest") /\ admin'[i] # admin[i]) =>
              LET rows == {r \in payment_requests : r.id = admin[i].arg.requestId} IN
              /\ rows = {} => (admin'[i].pc = "done" /\ admin'[i].status = 404)
              /\ (\E r \in rows : r.status = "approved") =>
                     (admin'[i].pc = "done" /\ admin'[i].status = 400
                      /\ admin'[i].json = "Already approved")
              /\ UNCHANGED <<businesses, payment_requests, outbox>>]_vars

(***************************************************************************)
(* C18  The approve handler sends exactly one response per request: it     *)
(* calls res.json once, and after the success response has gone out it     *)
(* makes no further database update.                                       *)
(***************************************************************************)
C18_OneResponseThenNothing ==
    \A i \in Slots :
        admin[i].op = "approve" =>
            /\ admin[i].attempts <= 1
            /\ admin[i].late = 0
            /\ admin[i].pc = "done" => admin[i].sent = 1

\* the part that holds: one response goes out on the wire
C18_OneResponseSent ==
    \A i \in Slots :
        admin[i].op = "approve" =>
            /\ admin[i].sent <= 1
            /\ admin[i].pc = "done" => admin[i].sent = 1

(***************************************************************************)
(* C19  Whenever the approve handler has answered with success, the        *)
(* payment request is 'approved' and its business has the request's plan;  *)
(* and when the update of the business fails, the request is not left      *)
(* 'approved' with the business unchanged.                                 *)
(***************************************************************************)
RequestApproved(id) == \E r \in payment_requests : r.id = id /\ r.status = "approved"

BusinessHasPlan(request) ==
    \E b \in businesses : b.id = request.business_id /\ b.subscription_plan = request.plan

C19_SuccessMeansActivated ==
    \A i \in Slots :
        LET h == admin[i] IN
        Approving(h) =>
            /\ (h.sent = 1 /\ h.status = 200) =>
                   (RequestApproved(h.arg.requestId) /\ BusinessHasPlan(h.request))
            /\ (h.pc = "done" /\ RequestApproved(h.arg.requestId)) => BusinessHasPlan(h.request)

(***************************************************************************)
(* C13  The three Twilio webhooks process a request only when its          *)
(* X-Twilio-Signature is valid: a request with an invalid signature is     *)
(* answered 403, changes no row of call_logs and no minutes_used.          *)
(***************************************************************************)
C13_ForgedSignatureRefused ==
    [][(req'.op \in {"voice", "gather", "status"} /\ req'.arg.sig # "valid") =>
          /\ resp'.status = 403
          /\ UNCHANGED call_logs
          /\ \A b \in businesses : \E c \in businesses' :
                c.id = b.id /\ c.minutes_used = b.minutes_used]_vars

(***************************************************************************)
(* C15  After any interleaving of status callbacks for distinct completed  *)
(* calls to the number of one business, minutes_used of the business is    *)
(* its initial value plus the sum of ceil(d/60) over those calls.          *)
(***************************************************************************)
Delivered == {i \in Deliveries : callbacks[i].pc # "idle"}

AllAnswered == \A i \in Deliveries : callbacks[i].pc \in {"idle", "done"}

MinutesOf(i) == MinutesToAdd(callbacks[i].arg.CallStatus, callbacks[i].arg.CallDuration)

RECURSIVE SumMinutes(_)
SumMinutes(S) ==
    IF S = {} THEN 0
    ELSE LET i == CHOOSE x \in S : TRUE IN MinutesOf(i) + SumMinutes(S \ {i})

UsedBy(id) == (CHOOSE b \in businesses : b.id = id).minutes_used

DistinctCalls ==
    \A i, j \in Delivered : i # j => callbacks[i].arg.CallSid # callbacks[j].arg.CallSid

C15_NoIncrementLost ==
    (AllAnswered /\ DistinctCalls) =>
        UsedBy("b1") = ConnectedTenant.minutes_used + SumMinutes(Delivered)

(***************************************************************************)
(* C16  Each completed call adds its minutes to minutes_used at most once, *)
(* also when its 'completed' callback is delivered more than once: the     *)
(* usage never exceeds the initial value plus, for each CallSid, the       *)
(* minutes of one of its callbacks.                                        *)
(***************************************************************************)
MinutesOfCall(sid) ==
    LET ms == {MinutesOf(i) : i \in {j \in Delivered : callbacks[j].arg.CallSid = sid}}
    IN IF ms = {} THEN 0 ELSE CHOOSE m \in ms : \A n \in ms : n <= m

RECURSIVE SumCalls(_)
SumCalls(S) ==
    IF S = {} THEN 0
    ELSE LET sid == CHOOSE x \in S : TRUE IN MinutesOfCall(sid) + SumCalls(S \ {sid})

C16_CallCountedOnce ==
    UsedBy("b1") <= ConnectedTenant.minutes_used + SumCalls(StatusSids)

(***************************************************************************)
(* C20  After any sequence of webhooks there is at most one call_logs row  *)
(* per CallSid; the no-input redirect back to /webhooks/twilio/voice does  *)
(* not insert a second row for the call.                                   *)
(***************************************************************************)
C20_OneRowPerCall ==
    \A i, j \in DOMAIN call_logs :
        call_logs[i].call_sid = call_logs[j].call_sid => i = j

(***************************************************************************)
(* C14  While monitoring, a tick calls onSpeechStart exactly when the      *)
(* average volume it reads exceeds VOLUME_THRESHOLD while not speaking,    *)
(* and calls the silence-triggered onSpeechEnd exactly when, while         *)
(* speaking, the volume is at or below the threshold and more than 700 ms  *)
(* have passed since the last loud tick.  Between startMonitoring and      *)
(* stopMonitoring the two strictly alternate, starting with onSpeechStart. *)
(***************************************************************************)
Called(c, v) == \E k \in DOMAIN v.calls : v.calls[k] = c

IsTick == vad.isMonitoring /\ vad'.isMonitoring /\ vad'.now # vad.now

C14_StartAndSilenceEnd ==
    [][IsTick =>
         LET loud == vad'.sum * 100 > 5 * 128 * 255 IN
         /\ Called(SpeechStart, vad') <=> (loud /\ ~vad.isSpeaking)
         /\ Called(SilenceEnd, vad') <=>
                (vad.isSpeaking /\ ~loud /\ vad'.now - vad.lastSpeechTime > 700)
         /\ Called(SpeechStart, vad') => vad.last \in {"none", "onSpeechEnd"}
         /\ Called(SilenceEnd, vad') => vad.last = "onSpeechStart"
         /\ ~(Called(SpeechStart, vad') /\ Called(SilenceEnd, vad'))]_vars

\* speech has ended by silence a tick after the threshold was met exactly,
\* and the ended speech was not the first of the session
C14_Witness ==
    /\ vad.isMonitoring
    /\ Called(SilenceEnd, vad)
    /\ vad.now - vad.lastSpeechTime = SILENCE_THRESHOLD + 100
    /\ vad.speechStartTime > 1000

(***************************************************************************)
(* C21  Once a business has minutes_used >= minutes_limit, every later     *)
(* incoming call to its number is refused until an admin approval raises   *)
(* its limit: a step that is not part of an approval leaves a business     *)
(* that is over its quota over its quota, refuses a call to its number,    *)
(* and neither lowers minutes_used nor raises minutes_limit of any         *)
(* business.                                                               *)
(***************************************************************************)
NoApprovalStep == admin' = admin /\ req'.op # "approve"

VoiceStepTo(b) ==
    /\ callbacks' = callbacks
    /\ req'.op = "voice"
    /\ req'.arg.To = b.twilio_phone_number

C21_OverQuotaUntilApproval ==
    [][NoApprovalStep =>
         \A b \in businesses :
            /\ \A c \in businesses' :
                  c.id = b.id =>
                     /\ UsedOf(c) >= UsedOf(b)
                     /\ LimitOf(c) <= LimitOf(b)
                     /\ OverQuota(b) => OverQuota(c)
            /\ (OverQuota(b) /\ VoiceStepTo(b)) =>
                  (IsSayHangup(resp') /\ ~HasGather(resp') /\ call_logs' = call_logs)]_vars

(***************************************************************************)
(* C22  The history that /api/chat passes to the model is empty or begins  *)
(* with a 'user' entry: entries with role 'assistant' become 'model' and   *)
(* all others 'user', in the order received; a 'user' entry 'Start         *)
(* conversation' is put in front exactly when the first mapped entry is    *)
(* 'model'; a history that is not an array is passed as the empty history. *)
(***************************************************************************)
StartConversation == [role |-> "user", text |-> <<"Start conversation">>]

\* passed is what the model gets for the items received
MappedFrom(items, passed) ==
    LET k == IF items # <<>> /\ items[1].role = "assistant" THEN 1 ELSE 0 IN
    /\ Len(passed) = Len(items) + k
    /\ k = 1 => passed[1] = StartConversation
    /\ \A i \in DOMAIN items :
          /\ passed[i + k].role = (IF items[i].role = "assistant" THEN "model" ELSE "user")
          /\ passed[i + k].text = items[i].content

C22_HistoryStartsWithUser ==
    \A n \in DOMAIN chat.calls :
        LET passed == chat.calls[n].history
            received == chat.r.history
        IN /\ passed = <<>> \/ passed[1].role = "user"
           /\ IF received.isArray THEN MappedFrom(received.items, passed)
              ELSE passed = <<>>

\* the model was called with a history of three entries that began with the
\* assistant's greeting and held an entry of role 'system'
C22_Witness ==
    /\ chat.calls # <<>>
    /\ chat.r.history.isArray
    /\ Len(chat.r.history.items) = 3
    /\ chat.r.history.items[1].role = "assistant"
    /\ chat.calls[1].history[1] = StartConversation
    /\ chat.calls[1].history[2].role = "model"
    /\ chat.calls[1].history[3].role = "user"

(***************************************************************************)
(* C23  checkSetup routes a signed-in user to the dashboard, with the      *)
(* Business record as config, when GET /api/status gets a response, the    *)
(* response is 200 and the server has read the user's record; in every     *)
(* other outcome (no record, a failed query, 401, another error status, no *)
(* response after all attempts) it routes to onboarding with an empty      *)
(* config, also when a record exists.                                      *)
(***************************************************************************)
CheckSetupEnds == ui.view = "loading" /\ ui.isLoading /\ ~ui'.isLoading

RecordsOf(user) == {b \in businesses : b.user_id = user}

C23_RoutedByStatusAnswer ==
    [][CheckSetupEnds =>
         LET own == RecordsOf(ui.session)
             read == /\ req'.arg.failures < 3
                     /\ req'.arg.outcome = "answer"
                     /\ Cardinality(own) = 1
         IN /\ req'.op = "status"
            /\ read => /\ ui'.view = "dashboard"
                       /\ \E b \in own : ui'.config = ConfigOfRow(b)
            /\ ~read => (ui'.view = "onboarding" /\ ui'.config = EmptyConfig)]_vars

\* the user has a record, /api/status was answered with an error status, and
\* the user is at the onboarding form
C23_Witness ==
    /\ req.op = "status" /\ req.arg.outcome = "error" /\ req.arg.failures = 0
    /\ resp.status = 500
    /\ ui.session # NULL /\ RecordsOf(ui.session) # {}
    /\ ui.view = "onboarding" /\ ui.config = EmptyConfig

\* as stated: the record alone decides, whatever comes of the request
C23_AsStated ==
    [][CheckSetupEnds =>
         LET own == RecordsOf(ui.session) IN
         /\ own # {} => /\ ui'.view = "dashboard"
                        /\ \E b \in own : ui'.config = ConfigOfRow(b)
         /\ own = {} => ui'.view = "onboarding"]_vars

====
